---- MODULE Spec2Model ----
(***************************************************************************)
(* Model of the contract verification tool                                 *)
(* third_party/contracts/tools/verify_contracts.py: the value classifier,  *)
(* the determinism scanner, the canonical-form checker and the run that    *)
(* aggregates and reports them.                                            *)
(*                                                                         *)
(* A Python str is a sequence of one-character strings; a bytes object is  *)
(* a sequence of byte tokens (an ASCII byte is written as its character,   *)
(* a byte >= 0x80 as "xHH").                                               *)
(***************************************************************************)
EXTENDS Integers, Sequences, FiniteSets, TLC

VARIABLES
    fs,            \* the contracts directory the run reads (never written)
    allowlist,     \* run_checks: the allowlist as loaded
    enumerated,    \* the order in which rglob yielded the goldens
    golden_paths,  \* run_checks: sorted list of goldens
    golden_count,  \* run_checks: len(golden_paths)
    idx,           \* run_checks: position of the for loop in golden_paths
    results,       \* run_checks: list of (rel_path, file_errors)
    all_errors,    \* run_checks: list of all violation records
    stdout,        \* lines printed so far
    exit_status,   \* status the process exited with, -1 while it runs
    pc,            \* position of the process, or of the function under test
    arg,           \* arguments of the function under test
    ret            \* what the function under test returned

vars == <<fs, allowlist, enumerated, golden_paths, golden_count, idx, results,
          all_errors, stdout, exit_status, pc, arg, ret>>

runvars == <<fs, allowlist, enumerated, golden_paths, golden_count, idx,
             results, all_errors, stdout, exit_status>>

----------------------------------------------------------------------------
(* Characters and strings *)

Digit == {"0", "1", "2", "3", "4", "5", "6", "7", "8", "9"}

\* ARABIC-INDIC DIGIT THREE: a decimal digit for \d, not for [0-9].
UnicodeDigit == Digit \cup {"U+0663"}

HexLower == Digit \cup {"a", "b", "c", "d", "e", "f"}

LowerAlpha ==
    {"a", "b", "c", "d", "e", "f", "g", "h", "i", "j", "k", "l", "m", "n",
     "o", "p", "q", "r", "s", "t", "u", "v", "w", "x", "y", "z"}

UpperAlpha ==
    {"A", "B", "C", "D", "E", "F", "G", "H", "I", "J", "K", "L", "M", "N",
     "O", "P", "Q", "R", "S", "T", "U", "V", "W", "X", "Y", "Z"}

\* The characters of the model in ascending code point order.
CodeOrder ==
    <<"U+0008", "\t", "\n", "\f", "\r", " ", "\"", ",", "-", ".", "/">>
    \o <<"0", "1", "2", "3", "4", "5", "6", "7", "8", "9", ":">>
    \o <<"A", "B", "C", "D", "E", "F", "G", "H", "I", "J", "K", "L", "M",
         "N", "O", "P", "Q", "R", "S", "T", "U", "V", "W", "X", "Y", "Z">>
    \o <<"[", "\\", "]", "_">>
    \o <<"a", "b", "c", "d", "e", "f", "g", "h", "i", "j", "k", "l", "m",
         "n", "o", "p", "q", "r", "s", "t", "u", "v", "w", "x", "y", "z">>
    \o <<"{", "}", "U+00E9", "U+0663">>

Ord(c) == CHOOSE i \in 1..Len(CodeOrder) : CodeOrder[i] = c

\* Python's str.__lt__: lexicographic by code point, a proper prefix first.
StrLess(a, b) ==
    \E i \in 1..(Len(a) + 1) :
        /\ i <= Len(b)
        /\ \A j \in 1..(i - 1) : a[j] = b[j]
        /\ (i = Len(a) + 1 \/ Ord(a[i]) < Ord(b[i]))

StartsWith(s, prefix) ==
    /\ Len(s) >= Len(prefix)
    /\ \A i \in 1..Len(prefix) : s[i] = prefix[i]

----------------------------------------------------------------------------
(* The regular expressions of the classifier.  A pattern without           *)
(* alternation or repetition is the sequence of its character classes.     *)

Lit(s) == [i \in 1..Len(s) |-> {s[i]}]

RepeatClass(class, n) == [i \in 1..n |-> class]

\* re.match: the pattern matches a prefix of the value.
match_prefix(pattern, value) ==
    /\ Len(value) >= Len(pattern)
    /\ \A i \in 1..Len(pattern) : value[i] \in pattern[i]

\* "$" after n matched characters: the end of the string, or just before a
\* newline that ends the string.
at_end(value, n) ==
    \/ n = Len(value)
    \/ n + 1 = Len(value) /\ value[n + 1] = "\n"

RE_DATETIME ==
    RepeatClass(UnicodeDigit, 4) \o Lit(<<"-">>) \o RepeatClass(UnicodeDigit, 2)
    \o Lit(<<"-">>) \o RepeatClass(UnicodeDigit, 2) \o Lit(<<"T">>)
    \o RepeatClass(UnicodeDigit, 2) \o Lit(<<":">>) \o RepeatClass(UnicodeDigit, 2)
    \o Lit(<<":">>) \o RepeatClass(UnicodeDigit, 2)

EPOCH_SENTINEL == <<"1","9","7","0","-","0","1","-","0","1","T","0","0",":","0","0",":","0","0","Z">>

RE_UUID ==
    RepeatClass(HexLower, 8) \o Lit(<<"-">>) \o RepeatClass(HexLower, 4)
    \o Lit(<<"-">>) \o RepeatClass(HexLower, 4) \o Lit(<<"-">>)
    \o RepeatClass(HexLower, 4) \o Lit(<<"-">>) \o RepeatClass(HexLower, 12)

RE_UUID_match(value) ==
    match_prefix(RE_UUID, value) /\ at_end(value, Len(RE_UUID))

PLACEHOLDER_URI == <<"f","i","l","e",":","/","/","/","p","l","a","c","e","h","o","l","d","e","r">>

RE_FILE_URI_ALLOWED_match(value) ==
    /\ match_prefix(Lit(PLACEHOLDER_URI), value)
    /\ \/ match_prefix(Lit(PLACEHOLDER_URI \o <<"/">>), value)
       \/ at_end(value, Len(PLACEHOLDER_URI))

RE_FILE_URI == Lit(<<"f","i","l","e",":","/","/","/">>)

RE_ABS_PATH_match(value) ==
    \/ match_prefix(Lit(<<"/">>) \o <<LowerAlpha>>, value)
    \/ match_prefix(<<UpperAlpha>> \o Lit(<<":","\\">>), value)

----------------------------------------------------------------------------
(* Violation records.  The message text is kept as its parts: the kind,    *)
(* the path it names, the field, what the field contains, and the value    *)
(* (the code prints repr(value), which is injective).                      *)

Record(kind, path, detail, field, value) ==
    [kind |-> kind, path |-> path, detail |-> detail, field |-> field,
     value |-> value]

NonDeterministic(rel_path, key, what, value) ==
    Record("NON_DETERMINISTIC", rel_path, what, key, value)

check_string_value_sentinel_prefix(value, key, rel_path, errors) ==
    IF match_prefix(RE_DATETIME, value) /\ ~StartsWith(value, EPOCH_SENTINEL)
    THEN Append(errors, NonDeterministic(rel_path, key, "datetime", value))
    ELSE IF RE_UUID_match(value)
    THEN Append(errors, NonDeterministic(rel_path, key, "UUID", value))
    ELSE IF match_prefix(RE_FILE_URI, value)
            /\ ~RE_FILE_URI_ALLOWED_match(value)
    THEN Append(errors, NonDeterministic(rel_path, key, "file URI", value))
    ELSE IF RE_ABS_PATH_match(value)
    THEN Append(errors, NonDeterministic(rel_path, key, "absolute path", value))
    ELSE errors

check_string_value_no_placeholder(value, key, rel_path, errors) ==
    IF match_prefix(RE_DATETIME, value) /\ value # EPOCH_SENTINEL
    THEN Append(errors, NonDeterministic(rel_path, key, "datetime", value))
    ELSE IF RE_UUID_match(value)
    THEN Append(errors, NonDeterministic(rel_path, key, "UUID", value))
    ELSE IF match_prefix(RE_FILE_URI, value)
    THEN Append(errors, NonDeterministic(rel_path, key, "file URI", value))
    ELSE IF RE_ABS_PATH_match(value)
    THEN Append(errors, NonDeterministic(rel_path, key, "absolute path", value))
    ELSE errors

\* Appends an error to errors if value is non-deterministic; the new list.
check_string_value(value, key, rel_path, errors) ==
    IF match_prefix(RE_DATETIME, value) /\ value # EPOCH_SENTINEL
    THEN Append(errors, NonDeterministic(rel_path, key, "datetime", value))
    ELSE IF RE_UUID_match(value)
    THEN Append(errors, NonDeterministic(rel_path, key, "UUID", value))
    ELSE IF match_prefix(RE_FILE_URI, value)
            /\ ~RE_FILE_URI_ALLOWED_match(value)
    THEN Append(errors, NonDeterministic(rel_path, key, "file URI", value))
    ELSE IF RE_ABS_PATH_match(value)
    THEN Append(errors, NonDeterministic(rel_path, key, "absolute path", value))
    ELSE errors

----------------------------------------------------------------------------
(* Parsed JSON documents: what json.loads returns.  A value is a record of *)
(* one shape; t names the Python type (NoneType, bool, int, str, list,     *)
(* dict), and a dict is the sequence of its (key, value) items in          *)
(* insertion order, with distinct keys.                                    *)

JNull == [t |-> "null", n |-> 0, s |-> <<>>, items |-> <<>>, members |-> <<>>]

JBool(b) ==
    [t |-> IF b THEN "true" ELSE "false", n |-> 0, s |-> <<>>,
     items |-> <<>>, members |-> <<>>]

JInt(n) == [t |-> "int", n |-> n, s |-> <<>>, items |-> <<>>, members |-> <<>>]

JStr(s) == [t |-> "str", n |-> 0, s |-> s, items |-> <<>>, members |-> <<>>]

JList(items) ==
    [t |-> "list", n |-> 0, s |-> <<>>, items |-> items, members |-> <<>>]

JDict(members) ==
    [t |-> "dict", n |-> 0, s |-> <<>>, items |-> <<>>, members |-> members]

Item(k, v) == [k |-> k, v |-> v]

DictKeys(d) == {d.members[i].k : i \in 1..Len(d.members)}

\* dict.get(key, default)
DictGet(d, key, default) ==
    IF key \in DictKeys(d)
    THEN d.members[CHOOSE i \in 1..Len(d.members) : d.members[i].k = key].v
    ELSE default

\* PurePath(name).stem: the name without its last suffix; a name whose only
\* dot is its first or its last character has no suffix.
Stem(name) ==
    LET dots == {i \in 1..Len(name) : name[i] = "."}
        last == CHOOSE i \in dots : \A j \in dots : j <= i
    IN  IF dots = {} THEN name
        ELSE IF last = 1 \/ last = Len(name) THEN name
        ELSE SubSeq(name, 1, last - 1)

----------------------------------------------------------------------------
(* The determinism scanner *)

RECURSIVE walk_values(_, _, _, _, _)

visit_list_item_unchecked(item, current_key, allowlist_schema, errors, rel_path) ==
    IF item.t = "str"
    THEN check_string_value(item.s, current_key, rel_path, errors)
    ELSE IF item.t \in {"dict", "list"}
    THEN walk_values(item, current_key, allowlist_schema, errors, rel_path)
    ELSE errors

\* The body of "for k, v in data.items()".
visit_dict_item(k, v, allowlist_schema, errors, rel_path) ==
    IF v.t = "str"
    THEN IF k \notin DictKeys(allowlist_schema)
         THEN check_string_value(v.s, k, rel_path, errors)
         ELSE errors
    ELSE IF v.t \in {"dict", "list"}
    THEN walk_values(v, k, allowlist_schema, errors, rel_path)
    ELSE errors

\* The body of "for item in data".
visit_list_item(item, current_key, allowlist_schema, errors, rel_path) ==
    IF item.t = "str"
    THEN IF current_key \notin DictKeys(allowlist_schema)
         THEN check_string_value(item.s, current_key, rel_path, errors)
         ELSE errors
    ELSE IF item.t \in {"dict", "list"}
    THEN walk_values(item, current_key, allowlist_schema, errors, rel_path)
    ELSE errors

RECURSIVE walk_dict_items(_, _, _, _, _)
walk_dict_items(members, i, allowlist_schema, errors, rel_path) ==
    IF i > Len(members) THEN errors
    ELSE walk_dict_items(
             members, i + 1, allowlist_schema,
             visit_dict_item(members[i].k, members[i].v, allowlist_schema,
                             errors, rel_path),
             rel_path)

RECURSIVE walk_list_items(_, _, _, _, _, _)
walk_list_items(items, i, current_key, allowlist_schema, errors, rel_path) ==
    IF i > Len(items) THEN errors
    ELSE walk_list_items(
             items, i + 1, current_key, allowlist_schema,
             visit_list_item(items[i], current_key, allowlist_schema, errors,
                             rel_path),
             rel_path)

\* Walks all string values in data; the errors list after the walk.
walk_values(data, current_key, allowlist_schema, errors, rel_path) ==
    IF data.t = "dict"
    THEN walk_dict_items(data.members, 1, allowlist_schema, errors, rel_path)
    ELSE IF data.t = "list"
    THEN walk_list_items(data.items, 1, current_key, allowlist_schema, errors,
                         rel_path)
    ELSE errors

check_determinism(data, golden_name, allowlist_arg) ==
    LET stem == Stem(golden_name)
        allowlist_schema == DictGet(allowlist_arg, stem, JDict(<<>>))
    IN  walk_values(data, <<>>, allowlist_schema, <<>>, golden_name)

----------------------------------------------------------------------------
(* json.loads on bytes.  Modelled: UTF-8 input without a byte order mark,  *)
(* objects, arrays, strings with their escapes, integers, true, false and  *)
(* null.  Not modelled, and absent from every input of the model: floats,  *)
(* NaN and Infinity, UTF-16/32 input, and \u escapes of code points        *)
(* outside UnicodeEscapes.                                                 *)

\* The bytes of the non-ASCII characters of the model.
Utf8Bytes ==
    [c \in {"U+00E9", "U+0663"} |->
        IF c = "U+00E9" THEN <<"xC3", "xA9">> ELSE <<"xD9", "xA3">>]

HighBytes == {"xC3", "xA9", "xD9", "xA3", "xFF"}

\* s[a - 1 : b] of Python: the slice stops at the end of s.
Slice(s, a, b) == SubSeq(s, a, IF b > Len(s) THEN Len(s) ELSE b)

DecodeOk(text) == [ok |-> TRUE, text |-> text]

DecodeError == [ok |-> FALSE, text |-> <<>>]

\* bytes.decode("utf-8"): ok = FALSE stands for UnicodeDecodeError.
RECURSIVE decode_utf8(_, _, _)
decode_utf8(raw_bytes, i, acc) ==
    IF i > Len(raw_bytes) THEN DecodeOk(acc)
    ELSE IF raw_bytes[i] \notin HighBytes
    THEN decode_utf8(raw_bytes, i + 1, Append(acc, raw_bytes[i]))
    ELSE IF \E c \in DOMAIN Utf8Bytes :
                Slice(raw_bytes, i, i + 1) = Utf8Bytes[c]
    THEN decode_utf8(
             raw_bytes, i + 2,
             Append(acc, CHOOSE c \in DOMAIN Utf8Bytes :
                             Slice(raw_bytes, i, i + 1) = Utf8Bytes[c]))
    ELSE DecodeError

\* str.encode("utf-8")
RECURSIVE encode_utf8(_, _)
encode_utf8(text, i) ==
    IF i > Len(text) THEN <<>>
    ELSE (IF text[i] \in DOMAIN Utf8Bytes THEN Utf8Bytes[text[i]]
          ELSE <<text[i]>>) \o encode_utf8(text, i + 1)

WHITESPACE == {" ", "\t", "\n", "\r"}

\* WHITESPACE.match(s, i).end()
RECURSIVE skip_whitespace(_, _)
skip_whitespace(s, i) ==
    IF i <= Len(s) /\ s[i] \in WHITESPACE THEN skip_whitespace(s, i + 1)
    ELSE i

\* The result of a scanning step: the value and the index after it; ok =
\* FALSE stands for JSONDecodeError.
Scanned(val, end) == [ok |-> TRUE, val |-> val, end |-> end]

ScanError == [ok |-> FALSE, val |-> JNull, end |-> 0]

\* json.decoder.BACKSLASH
BACKSLASH ==
    [c \in {"\"", "\\", "/", "b", "f", "n", "r", "t"} |->
        CASE c = "\"" -> "\""
          [] c = "\\" -> "\\"
          [] c = "/" -> "/"
          [] c = "b" -> "U+0008"
          [] c = "f" -> "\f"
          [] c = "n" -> "\n"
          [] c = "r" -> "\r"
          [] c = "t" -> "\t"]

\* Characters below 0x20, which a strict string may not hold unescaped.
ControlChars == {"U+0008", "\t", "\n", "\f", "\r"}

\* The \uXXXX escape of the characters json.dumps writes as one.
UnicodeEscapes ==
    [c \in {"U+00E9", "U+0663"} |->
        IF c = "U+00E9" THEN <<"0","0","e","9">> ELSE <<"0","6","6","3">>]

HexDigit == HexLower \cup {"A", "B", "C", "D", "E", "F"}

LowerHex(h) ==
    [i \in 1..Len(h) |->
        CASE h[i] = "A" -> "a" [] h[i] = "B" -> "b" [] h[i] = "C" -> "c"
          [] h[i] = "D" -> "d" [] h[i] = "E" -> "e" [] h[i] = "F" -> "f"
          [] OTHER -> h[i]]

\* json.decoder.scanstring: s[i] is the first character after the opening
\* quote; acc is the content read so far.
RECURSIVE scanstring(_, _, _)
scanstring(s, i, acc) ==
    IF i > Len(s) THEN ScanError
    ELSE IF s[i] = "\"" THEN Scanned(JStr(acc), i + 1)
    ELSE IF s[i] = "\\"
    THEN IF i + 1 > Len(s) THEN ScanError
         ELSE IF s[i + 1] = "u"
         THEN LET hex == LowerHex(Slice(s, i + 2, i + 5))
                  known == {c \in DOMAIN UnicodeEscapes :
                               UnicodeEscapes[c] = hex}
              IN  IF i + 5 <= Len(s)
                     /\ (\A j \in 1..Len(hex) : hex[j] \in HexDigit)
                     /\ known # {}
                  THEN scanstring(s, i + 6,
                                  Append(acc, CHOOSE c \in known : TRUE))
                  ELSE ScanError
         ELSE IF s[i + 1] \in DOMAIN BACKSLASH
         THEN scanstring(s, i + 2, Append(acc, BACKSLASH[s[i + 1]]))
         ELSE ScanError
    ELSE IF s[i] \in ControlChars THEN ScanError
    ELSE scanstring(s, i + 1, Append(acc, s[i]))

DigitValue(c) == CHOOSE n \in 0..9 : <<"0","1","2","3","4","5","6","7","8","9">>[n + 1] = c

\* The end of the longest run of [0-9] that starts at i.
RECURSIVE digits_end(_, _)
digits_end(s, i) ==
    IF i <= Len(s) /\ s[i] \in Digit THEN digits_end(s, i + 1) ELSE i

RECURSIVE int_of_digits(_, _, _, _)
int_of_digits(s, i, end, acc) ==
    IF i >= end THEN acc
    ELSE int_of_digits(s, i + 1, end, acc * 10 + DigitValue(s[i]))

\* NUMBER_RE.match(s, i), integer part: -?(0|[1-9][0-9]*).
match_number(s, i) ==
    LET neg == i <= Len(s) /\ s[i] = "-"
        first == IF neg THEN i + 1 ELSE i
        end == IF first <= Len(s) /\ s[first] = "0" THEN first + 1
               ELSE digits_end(s, first)
        magnitude == int_of_digits(s, first, end, 0)
    IN  IF end = first THEN ScanError
        ELSE Scanned(JInt(IF neg THEN 0 - magnitude ELSE magnitude), end)

\* dict(pairs) with one more pair: a repeated key keeps its place and takes
\* the new value.
DictSet(members, k, v) ==
    IF \E j \in 1..Len(members) : members[j].k = k
    THEN [j \in 1..Len(members) |->
             IF members[j].k = k THEN Item(k, v) ELSE members[j]]
    ELSE Append(members, Item(k, v))

RECURSIVE scan_once(_, _)
RECURSIVE parse_object_pairs(_, _, _)
RECURSIVE parse_array_items(_, _, _)

\* JSONObject: s[i] is the first character after "{".
parse_object(s, i) ==
    LET j == skip_whitespace(s, i)
    IN  IF j > Len(s) THEN ScanError
        ELSE IF s[j] = "}" THEN Scanned(JDict(<<>>), j + 1)
        ELSE IF s[j] # "\"" THEN ScanError
        ELSE parse_object_pairs(s, j + 1, <<>>)

\* The loop of JSONObject: s[i] is the first character of a key, after its
\* opening quote.
parse_object_pairs(s, i, pairs) ==
    LET key == scanstring(s, i, <<>>)
        colon == skip_whitespace(s, key.end)
        value == scan_once(s, skip_whitespace(s, colon + 1))
        next == skip_whitespace(s, value.end)
        after == skip_whitespace(s, next + 1)
        dict == DictSet(pairs, key.val.s, value.val)
    IN  IF ~key.ok THEN ScanError
        ELSE IF colon > Len(s) \/ s[colon] # ":" THEN ScanError
        ELSE IF ~value.ok THEN ScanError
        ELSE IF next > Len(s) THEN ScanError
        ELSE IF s[next] = "}" THEN Scanned(JDict(dict), next + 1)
        ELSE IF s[next] # "," THEN ScanError
        ELSE IF after > Len(s) \/ s[after] # "\"" THEN ScanError
        ELSE parse_object_pairs(s, after + 1, dict)

\* JSONArray: s[i] is the first character after "[".
parse_array(s, i) ==
    LET j == skip_whitespace(s, i)
    IN  IF j <= Len(s) /\ s[j] = "]" THEN Scanned(JList(<<>>), j + 1)
        ELSE parse_array_items(s, j, <<>>)

parse_array_items(s, i, values) ==
    LET value == scan_once(s, i)
        next == skip_whitespace(s, value.end)
    IN  IF ~value.ok THEN ScanError
        ELSE IF next > Len(s) THEN ScanError
        ELSE IF s[next] = "]"
        THEN Scanned(JList(Append(values, value.val)), next + 1)
        ELSE IF s[next] # "," THEN ScanError
        ELSE parse_array_items(s, skip_whitespace(s, next + 1),
                               Append(values, value.val))

\* json.scanner.scan_once
scan_once(s, i) ==
    IF i > Len(s) THEN ScanError
    ELSE IF s[i] = "\"" THEN scanstring(s, i + 1, <<>>)
    ELSE IF s[i] = "{" THEN parse_object(s, i + 1)
    ELSE IF s[i] = "[" THEN parse_array(s, i + 1)
    ELSE IF s[i] = "n" /\ Slice(s, i, i + 3) = <<"n","u","l","l">>
    THEN Scanned(JNull, i + 4)
    ELSE IF s[i] = "t" /\ Slice(s, i, i + 3) = <<"t","r","u","e">>
    THEN Scanned(JBool(TRUE), i + 4)
    ELSE IF s[i] = "f" /\ Slice(s, i, i + 4) = <<"f","a","l","s","e">>
    THEN Scanned(JBool(FALSE), i + 5)
    ELSE match_number(s, i)

\* What json.loads(raw_bytes) does: returns data (raised = "no"), or raises
\* json.JSONDecodeError or UnicodeDecodeError.
json_loads(raw_bytes) ==
    LET decoded == decode_utf8(raw_bytes, 1, <<>>)
        s == decoded.text
        scanned == scan_once(s, skip_whitespace(s, 1))
        end == skip_whitespace(s, scanned.end)
    IN  IF ~decoded.ok THEN [raised |-> "UnicodeDecodeError", data |-> JNull]
        ELSE IF ~scanned.ok \/ end # Len(s) + 1
        THEN [raised |-> "JSONDecodeError", data |-> JNull]
        ELSE [raised |-> "no", data |-> scanned.val]

----------------------------------------------------------------------------
(* json.dumps *)

escape_char_quote_unescaped(c, ensure_ascii) ==
    CASE c = "\\" -> <<"\\","\\">>
      [] c = "\n" -> <<"\\","n">>
      [] OTHER -> IF ensure_ascii /\ c \in DOMAIN UnicodeEscapes
                  THEN <<"\\","u">> \o UnicodeEscapes[c]
                  ELSE <<c>>

\* json.encoder.ESCAPE_DCT, and \uXXXX for the other characters that
\* ensure_ascii escapes.
escape_char(c, ensure_ascii) ==
    CASE c = "\"" -> <<"\\","\"">>
      [] c = "\\" -> <<"\\","\\">>
      [] c = "\n" -> <<"\\","n">>
      [] c = "\r" -> <<"\\","r">>
      [] c = "\t" -> <<"\\","t">>
      [] c = "\f" -> <<"\\","f">>
      [] c = "U+0008" -> <<"\\","b">>
      [] OTHER -> IF ensure_ascii /\ c \in DOMAIN UnicodeEscapes
                  THEN <<"\\","u">> \o UnicodeEscapes[c]
                  ELSE <<c>>

RECURSIVE encode_basestring(_, _, _)
encode_basestring(s, i, ensure_ascii) ==
    IF i > Len(s) THEN <<>>
    ELSE escape_char(s[i], ensure_ascii)
         \o encode_basestring(s, i + 1, ensure_ascii)

RECURSIVE digits_of_int(_)
digits_of_int(n) ==
    IF n < 10 THEN <<<<"0","1","2","3","4","5","6","7","8","9">>[n + 1]>>
    ELSE Append(digits_of_int(n \div 10), <<"0","1","2","3","4","5","6","7","8","9">>[(n % 10) + 1])

\* int.__repr__
int_repr(n) == IF n < 0 THEN <<"-">> \o digits_of_int(0 - n) ELSE digits_of_int(n)

\* sorted(dct.items()): insertion of each item before the first greater key.
RECURSIVE sorted_items(_, _)
sorted_items(members, n) ==
    IF n = 0 THEN <<>>
    ELSE LET rest == sorted_items(members, n - 1)
             m == members[n]
             before == {j \in 1..Len(rest) : ~StrLess(m.k, rest[j].k)}
         IN  SubSeq(rest, 1, Cardinality(before)) \o <<m>>
             \o SubSeq(rest, Cardinality(before) + 1, Len(rest))

RECURSIVE json_dumps(_, _, _, _, _)
RECURSIVE dumps_items(_, _, _, _, _, _)
RECURSIVE dumps_members(_, _, _, _, _, _)

dumps_items(items, i, sort_keys, ensure_ascii, item_sep, key_sep) ==
    IF i > Len(items) THEN <<>>
    ELSE (IF i > 1 THEN item_sep ELSE <<>>)
         \o json_dumps(items[i], sort_keys, ensure_ascii, item_sep, key_sep)
         \o dumps_items(items, i + 1, sort_keys, ensure_ascii, item_sep,
                        key_sep)

dumps_members(members, i, sort_keys, ensure_ascii, item_sep, key_sep) ==
    IF i > Len(members) THEN <<>>
    ELSE (IF i > 1 THEN item_sep ELSE <<>>)
         \o <<"\"">> \o encode_basestring(members[i].k, 1, ensure_ascii) \o <<"\"">>
         \o key_sep
         \o json_dumps(members[i].v, sort_keys, ensure_ascii, item_sep,
                       key_sep)
         \o dumps_members(members, i + 1, sort_keys, ensure_ascii, item_sep,
                          key_sep)

\* json.dumps(data, sort_keys=..., ensure_ascii=..., separators=(item_sep,
\* key_sep)), as a str.
json_dumps(data, sort_keys, ensure_ascii, item_sep, key_sep) ==
    CASE data.t = "null" -> <<"n","u","l","l">>
      [] data.t = "true" -> <<"t","r","u","e">>
      [] data.t = "false" -> <<"f","a","l","s","e">>
      [] data.t = "int" -> int_repr(data.n)
      [] data.t = "str" ->
            <<"\"">> \o encode_basestring(data.s, 1, ensure_ascii) \o <<"\"">>
      [] data.t = "list" ->
            <<"[">> \o dumps_items(data.items, 1, sort_keys, ensure_ascii,
                               item_sep, key_sep) \o <<"]">>
      [] data.t = "dict" ->
            <<"{">> \o dumps_members(
                       IF sort_keys
                       THEN sorted_items(data.members, Len(data.members))
                       ELSE data.members,
                       1, sort_keys, ensure_ascii, item_sep, key_sep) \o <<"}">>

----------------------------------------------------------------------------
(* The canonical-form checker *)

canonical_bytes_unsorted(data) ==
    encode_utf8(json_dumps(data, FALSE, TRUE, <<",">>, <<":">>) \o <<"\n">>, 1)

\* canonical_bytes: json.dumps(sort_keys=True, separators=(',', ':')) and a
\* newline, encoded.
canonical_bytes(data) ==
    encode_utf8(json_dumps(data, TRUE, TRUE, <<",">>, <<":">>) \o <<"\n">>, 1)

NotCanonical(rel_path, detail) ==
    Record("NOT_CANONICAL", rel_path, detail, <<>>, <<>>)

\* check_canonical: the list of errors; raised = "UnicodeDecodeError" when
\* json.loads raises what the except clause does not catch.
check_canonical(raw_bytes, rel_path) ==
    LET loaded == json_loads(raw_bytes)
    IN  IF loaded.raised = "JSONDecodeError"
        THEN [raised |-> "no",
              errors |-> <<NotCanonical(rel_path, "JSON parse error")>>]
        ELSE IF loaded.raised # "no"
        THEN [raised |-> loaded.raised, errors |-> <<>>]
        ELSE IF raw_bytes # canonical_bytes(loaded.data)
        THEN [raised |-> "no",
              errors |-> <<NotCanonical(rel_path, "mismatch")>>]
        ELSE [raised |-> "no", errors |-> <<>>]

----------------------------------------------------------------------------
(* compiler.py: the story text compiler *)

SCALAR_FIELDS ==
    <<<<"p","r","o","m","p","t","_","i","d">>, <<"e","p","i","s","o","d","e","_","g","o","a","l">>, <<"g","e","n","e","r","a","t","i","o","n","_","s","e","e","d">>, <<"s","e","r","i","e","s","_","t","i","t","l","e">>,
      <<"s","e","r","i","e","s","_","g","e","n","r","e">>, <<"s","e","r","i","e","s","_","t","o","n","e">>, <<"p","r","i","m","a","r","y","_","l","o","c","a","t","i","o","n">>, <<"m","a","x","_","s","c","e","n","e","s">>>>

\* The characters str.splitlines() ends a line at.
LineBoundaries ==
    {"\n", "\r", "\f", "U+000B", "U+001C", "U+001D", "U+001E", "U+0085",
     "U+2028", "U+2029"}

\* The characters str.strip() and str.split() take for whitespace.
StrWhitespace ==
    {" ", "\t", "\n", "\r", "\f", "U+000B", "U+001C", "U+001D", "U+001E",
     "U+001F", "U+0085", "U+00A0", "U+2028", "U+2029"}

\* raw.splitlines() from raw[i] on: "\r\n" is one boundary, and no empty
\* last line follows a final boundary.
RECURSIVE splitlines(_, _)
splitlines(raw, i) ==
    LET ends == {j \in i..Len(raw) : raw[j] \in LineBoundaries}
        end == CHOOSE j \in ends : \A k \in ends : j <= k
    IN  IF i > Len(raw) THEN <<>>
        ELSE IF ends = {} THEN <<SubSeq(raw, i, Len(raw))>>
        ELSE <<SubSeq(raw, i, end - 1)>>
             \o splitlines(raw,
                           IF raw[end] = "\r" /\ end < Len(raw)
                              /\ raw[end + 1] = "\n"
                           THEN end + 2 ELSE end + 1)

\* s.strip()
strip(s) ==
    LET kept == {i \in 1..Len(s) : s[i] \notin StrWhitespace}
        first == CHOOSE i \in kept : \A j \in kept : i <= j
        last == CHOOSE i \in kept : \A j \in kept : j <= i
    IN  IF kept = {} THEN <<>> ELSE SubSeq(s, first, last)

\* s.partition(":"): the text before the first colon and the text after
\* it; all of s and the empty string when s has no colon.
partition_colon(s) ==
    LET at == CHOOSE i \in 1..Len(s) :
                  s[i] = ":" /\ \A j \in 1..(i - 1) : s[j] # ":"
    IN  IF \A i \in 1..Len(s) : s[i] # ":"
        THEN [key |-> s, value |-> <<>>]
        ELSE [key |-> SubSeq(s, 1, at - 1),
              value |-> SubSeq(s, at + 1, Len(s))]

\* c.lower() for the letters A-Z
lower_char(c) ==
    IF c \in UpperAlpha
    THEN <<"a","b","c","d","e","f","g","h","i","j","k","l","m","n","o","p","q","r","s","t","u","v","w","x","y","z">>[
             CHOOSE i \in 1..26 : <<"A","B","C","D","E","F","G","H","I","J","K","L","M","N","O","P","Q","R","S","T","U","V","W","X","Y","Z">>[i] = c]
    ELSE c

lower(s) == [i \in 1..Len(s) |-> lower_char(s[i])]

\* value.split(): the runs of non-whitespace characters.
RECURSIVE split(_, _, _)
split(s, i, word) ==
    IF i > Len(s) THEN (IF word = <<>> THEN <<>> ELSE <<word>>)
    ELSE IF s[i] \in StrWhitespace
    THEN (IF word = <<>> THEN <<>> ELSE <<word>>) \o split(s, i + 1, <<>>)
    ELSE split(s, i + 1, Append(word, s[i]))

\* " ".join(parts[from:])
RECURSIVE join_spaces(_, _)
join_spaces(parts, from) ==
    IF from > Len(parts) THEN <<>>
    ELSE IF from = Len(parts) THEN parts[from]
    ELSE parts[from] \o <<" ">> \o join_spaces(parts, from + 1)

\* int(s) of a stripped string: an optional sign, then digits, single
\* underscores allowed between digits.  ok = FALSE is ValueError.
int_of_str(s) ==
    LET signed == Len(s) >= 1 /\ s[1] \in {"+", "-"}
        body == IF signed THEN SubSeq(s, 2, Len(s)) ELSE s
        wellformed ==
            /\ body # <<>>
            /\ \A i \in 1..Len(body) :
                  \/ body[i] \in Digit
                  \/ /\ body[i] = "_"
                     /\ 1 < i /\ i < Len(body)
                     /\ body[i - 1] \in Digit /\ body[i + 1] \in Digit
        digits == SelectSeq(body, LAMBDA c : c \in Digit)
        magnitude == int_of_digits(digits, 1, Len(digits) + 1, 0)
    IN  IF ~wellformed THEN [ok |-> FALSE, n |-> 0]
        ELSE [ok |-> TRUE,
              n |-> IF signed /\ s[1] = "-" THEN 0 - magnitude
                    ELSE magnitude]

Parsed(fields, characters) ==
    [error |-> "", fields |-> fields, characters |-> characters]

LineError(what) == [error |-> what, fields |-> <<>>, characters |-> <<>>]

Character(id, role) == JDict(<<Item(<<"i","d">>, JStr(id)), Item(<<"r","o","l","e">>, JStr(role))>>)

\* The loop of parse_story_file over the lines: the fields and characters
\* collected, or the CompileError of the first line that raises one.
RECURSIVE parse_lines(_, _, _, _)
parse_lines(lines, i, fields, characters) ==
    IF i > Len(lines) THEN Parsed(fields, characters)
    ELSE
    LET stripped == strip(lines[i])
        key == lower(strip(partition_colon(stripped).key))
        value == strip(partition_colon(stripped).value)
        parts == split(value, 1, <<>>)
    IN  IF stripped = <<>> \/ stripped[1] = "#"
        THEN parse_lines(lines, i + 1, fields, characters)
        ELSE IF \A j \in 1..Len(stripped) : stripped[j] # ":"
        THEN LineError("expected 'key: value'")
        ELSE IF key = <<"c","h","a","r","a","c","t","e","r">>
        THEN IF Len(parts) < 2
             THEN LineError("'character' requires '<id> <role>'")
             ELSE parse_lines(lines, i + 1, fields,
                              Append(characters,
                                     Character(parts[1],
                                               join_spaces(parts, 2))))
        ELSE IF \E j \in 1..Len(SCALAR_FIELDS) : SCALAR_FIELDS[j] = key
        THEN IF \E j \in 1..Len(fields) : fields[j].k = key
             THEN LineError("duplicate field")
             ELSE IF value = <<>>
             THEN LineError("field must not be empty")
             ELSE parse_lines(lines, i + 1, Append(fields, Item(key, value)),
                              characters)
        ELSE LineError("unknown field")

Field(fields, key) ==
    fields[CHOOSE j \in 1..Len(fields) : fields[j].k = key].v

Compiled(data) == [raised |-> "no", detail |-> "", data |-> data]

CompileError(detail) ==
    [raised |-> "CompileError", detail |-> detail, data |-> JNull]

\* The dict parse_story_file returns.
StoryPrompt(fields, characters, generation_seed, max_scenes) ==
    JDict(<<Item(<<"s","c","h","e","m","a","_","i","d">>, JStr(<<"S","t","o","r","y","P","r","o","m","p","t">>)),
            Item(<<"s","c","h","e","m","a","_","v","e","r","s","i","o","n">>, JStr(<<"1",".","0">>)),
            Item(<<"p","r","o","m","p","t","_","i","d">>, JStr(Field(fields, <<"p","r","o","m","p","t","_","i","d">>))),
            Item(<<"e","p","i","s","o","d","e","_","g","o","a","l">>, JStr(Field(fields, <<"e","p","i","s","o","d","e","_","g","o","a","l">>))),
            Item(<<"g","e","n","e","r","a","t","i","o","n","_","s","e","e","d">>, JInt(generation_seed)),
            Item(<<"s","e","r","i","e","s">>,
                 JDict(<<Item(<<"t","i","t","l","e">>, JStr(Field(fields, <<"s","e","r","i","e","s","_","t","i","t","l","e">>))),
                         Item(<<"g","e","n","r","e">>, JStr(Field(fields, <<"s","e","r","i","e","s","_","g","e","n","r","e">>))),
                         Item(<<"t","o","n","e">>, JStr(Field(fields, <<"s","e","r","i","e","s","_","t","o","n","e">>)))>>)),
            Item(<<"s","e","t","t","i","n","g">>,
                 JDict(<<Item(<<"p","r","i","m","a","r","y","_","l","o","c","a","t","i","o","n">>,
                              JStr(Field(fields, <<"p","r","i","m","a","r","y","_","l","o","c","a","t","i","o","n">>)))>>)),
            Item(<<"c","h","a","r","a","c","t","e","r","s">>, JList(characters)),
            Item(<<"c","o","n","s","t","r","a","i","n","t","s">>,
                 JDict(<<Item(<<"m","a","x","_","s","c","e","n","e","s">>, JInt(max_scenes))>>))>>)

\* parse_story_file after the file was read: raw is its text.
parse_story_text(raw) ==
    LET check(parsed) ==
            IF parsed.error # "" THEN CompileError(parsed.error)
            ELSE IF \E j \in 1..Len(SCALAR_FIELDS) :
                       \A k \in 1..Len(parsed.fields) :
                           parsed.fields[k].k # SCALAR_FIELDS[j]
            THEN CompileError("Missing required field(s)")
            ELSE IF Len(parsed.characters) < 2
            THEN CompileError("At least 2 'character:' lines are required")
            ELSE IF ~int_of_str(Field(parsed.fields, <<"g","e","n","e","r","a","t","i","o","n","_","s","e","e","d">>)).ok
            THEN CompileError("'generation_seed' must be an integer")
            ELSE IF ~int_of_str(Field(parsed.fields, <<"m","a","x","_","s","c","e","n","e","s">>)).ok
            THEN CompileError("'max_scenes' must be an integer")
            ELSE IF int_of_str(Field(parsed.fields, <<"m","a","x","_","s","c","e","n","e","s">>)).n <= 0
            THEN CompileError("'max_scenes' must be a positive integer")
            ELSE Compiled(StoryPrompt(
                     parsed.fields, parsed.characters,
                     int_of_str(Field(parsed.fields, <<"g","e","n","e","r","a","t","i","o","n","_","s","e","e","d">>)).n,
                     int_of_str(Field(parsed.fields, <<"m","a","x","_","s","c","e","n","e","s">>)).n))
    IN  check(parse_lines(splitlines(raw, 1), 1, <<>>, <<>>))

\* parse_story_file(story_path): story is the file at the path, with the
\* outcome of reading it as UTF-8 text.
parse_story_file(story) ==
    CASE story.read = "OSError" -> CompileError("Cannot read story file")
      [] story.read = "UnicodeDecodeError" ->
            [raised |-> "UnicodeDecodeError", detail |-> "", data |-> JNull]
      [] OTHER -> parse_story_text(story.raw)

\* run_world_engine_validation: world_engine is what the system answers to
\* the lookup of the binary and to its invocation.
run_world_engine_validation(world_engine) ==
    CASE world_engine = "not_found" -> "CompileError"
      [] world_engine = "invoke_fails" -> "CompileError"
      [] world_engine = "returncode_nonzero" -> "CanonViolationError"
      [] OTHER -> "no"

----------------------------------------------------------------------------
(* writer.write_json: json.dumps(data, sort_keys=True, indent=2,           *)
(* ensure_ascii=True) and a trailing newline.                              *)

RECURSIVE spaces(_)
spaces(n) == IF n <= 0 THEN <<>> ELSE <<" ">> \o spaces(n - 1)

\* The newline and indentation json.dumps writes before an element at the
\* given nesting level.
newline_indent(indent, level) == <<"\n">> \o spaces(indent * level)

RECURSIVE dumps_indent(_, _, _)
RECURSIVE dumps_indent_items(_, _, _, _)
RECURSIVE dumps_indent_members(_, _, _, _)

dumps_indent_items(items, i, indent, level) ==
    IF i > Len(items) THEN <<>>
    ELSE (IF i > 1 THEN <<",">> ELSE <<>>)
         \o newline_indent(indent, level)
         \o dumps_indent(items[i], indent, level)
         \o dumps_indent_items(items, i + 1, indent, level)

dumps_indent_members(members, i, indent, level) ==
    IF i > Len(members) THEN <<>>
    ELSE (IF i > 1 THEN <<",">> ELSE <<>>)
         \o newline_indent(indent, level)
         \o <<"\"">> \o encode_basestring(members[i].k, 1, TRUE) \o <<"\"",":"," ">>
         \o dumps_indent(members[i].v, indent, level)
         \o dumps_indent_members(members, i + 1, indent, level)

\* json.dumps(data, sort_keys=True, indent=indent, ensure_ascii=True) for
\* the value data at the given nesting level, as a str.
dumps_indent(data, indent, level) ==
    CASE data.t = "null" -> <<"n","u","l","l">>
      [] data.t = "true" -> <<"t","r","u","e">>
      [] data.t = "false" -> <<"f","a","l","s","e">>
      [] data.t = "int" -> int_repr(data.n)
      [] data.t = "str" -> <<"\"">> \o encode_basestring(data.s, 1, TRUE) \o <<"\"">>
      [] data.t = "list" ->
            IF data.items = <<>> THEN <<"[","]">>
            ELSE <<"[">> \o dumps_indent_items(data.items, 1, indent, level + 1)
                 \o newline_indent(indent, level) \o <<"]">>
      [] data.t = "dict" ->
            IF data.members = <<>> THEN <<"{","}">>
            ELSE <<"{">>
                 \o dumps_indent_members(
                        sorted_items(data.members, Len(data.members)), 1,
                        indent, level + 1)
                 \o newline_indent(indent, level) \o <<"}">>

\* The text write_json writes to its path.
write_json(data) == dumps_indent(data, 2, 0) \o <<"\n">>

----------------------------------------------------------------------------
(* generator.generate_script *)

DIALOGUE_PAIRS ==
    <<[line_a |-> <<"Y","o","u"," ","c","a","m","e",".">>, line_b |-> <<"I"," ","s","a","i","d"," ","I"," ","w","o","u","l","d",".">>],
      [line_a |-> <<"W","e","'","r","e"," ","l","a","t","e",".">>, line_b |-> <<"T","h","e","n"," ","w","e"," ","m","o","v","e"," ","n","o","w",".">>],
      [line_a |-> <<"D","i","d"," ","a","n","y","o","n","e"," ","f","o","l","l","o","w"," ","y","o","u","?">>,
       line_b |-> <<"N","o","."," ","B","u","t"," ","w","e"," ","s","h","o","u","l","d","n","'","t"," ","s","t","a","y",".">>]>>

\* sub in s
Contains(s, sub) ==
    \E i \in 1..(Len(s) - Len(sub) + 1) :
        SubSeq(s, i, i + Len(sub) - 1) = sub

\* dct[key] of a dict that has the key.
Get(dct, key) == Field(dct.members, key)

Dialogue(speaker, line) ==
    JDict(<<Item(<<"t","y","p","e">>, JStr(<<"d","i","a","l","o","g","u","e">>)),
            Item(<<"s","p","e","a","k","e","r">>, speaker),
            Item(<<"l","i","n","e">>, JStr(line))>>)

generate_script_seed_ignored(prompt) ==
    LET primary_location == Get(Get(prompt, <<"s","e","t","t","i","n","g">>), <<"p","r","i","m","a","r","y","_","l","o","c","a","t","i","o","n">>)
        characters == Get(prompt, <<"c","h","a","r","a","c","t","e","r","s">>).items
        scene ==
            JDict(<<Item(<<"s","c","e","n","e","_","i","d">>, JStr(<<"s","c","e","n","e","_","1">>)),
                    Item(<<"l","o","c","a","t","i","o","n">>, primary_location),
                    Item(<<"t","i","m","e","_","o","f","_","d","a","y">>,
                         IF Contains(lower(primary_location.s), <<"n","i","g","h","t">>)
                         THEN JStr(<<"n","i","g","h","t">>) ELSE JStr(<<"d","a","y">>)),
                    Item(<<"a","c","t","i","o","n","s">>,
                         JList(<<Dialogue(Get(characters[1], <<"i","d">>),
                                          DIALOGUE_PAIRS[1].line_a),
                                 Dialogue(Get(characters[2], <<"i","d">>),
                                          DIALOGUE_PAIRS[1].line_b)>>))>>)
    IN  JDict(<<Item(<<"g","e","n","r","e">>, Get(Get(prompt, <<"s","e","r","i","e","s">>), <<"g","e","n","r","e">>)),
                Item(<<"p","r","o","j","e","c","t","_","i","d">>, Get(Get(prompt, <<"s","e","r","i","e","s">>), <<"t","i","t","l","e">>)),
                Item(<<"s","c","h","e","m","a","_","i","d">>, JStr(<<"S","c","r","i","p","t">>)),
                Item(<<"s","c","h","e","m","a","_","v","e","r","s","i","o","n">>, JStr(<<"1",".","0",".","0">>)),
                Item(<<"s","c","e","n","e","s">>, JList(<<scene>>)),
                Item(<<"s","c","r","i","p","t","_","i","d">>, Get(prompt, <<"p","r","o","m","p","t","_","i","d">>)),
                Item(<<"t","i","t","l","e">>, Get(prompt, <<"e","p","i","s","o","d","e","_","g","o","a","l">>))>>)

generate_script(prompt) ==
    LET generation_seed == Get(prompt, <<"g","e","n","e","r","a","t","i","o","n","_","s","e","e","d">>).n
        primary_location == Get(Get(prompt, <<"s","e","t","t","i","n","g">>), <<"p","r","i","m","a","r","y","_","l","o","c","a","t","i","o","n">>)
        characters == Get(prompt, <<"c","h","a","r","a","c","t","e","r","s">>).items
        pair == DIALOGUE_PAIRS[(generation_seed % 3) + 1]
        scene ==
            JDict(<<Item(<<"s","c","e","n","e","_","i","d">>, JStr(<<"s","c","e","n","e","_","1">>)),
                    Item(<<"l","o","c","a","t","i","o","n">>, primary_location),
                    Item(<<"t","i","m","e","_","o","f","_","d","a","y">>,
                         IF Contains(lower(primary_location.s), <<"n","i","g","h","t">>)
                         THEN JStr(<<"n","i","g","h","t">>) ELSE JStr(<<"d","a","y">>)),
                    Item(<<"a","c","t","i","o","n","s">>,
                         JList(<<Dialogue(Get(characters[1], <<"i","d">>),
                                          pair.line_a),
                                 Dialogue(Get(characters[2], <<"i","d">>),
                                          pair.line_b)>>))>>)
    IN  JDict(<<Item(<<"g","e","n","r","e">>, Get(Get(prompt, <<"s","e","r","i","e","s">>), <<"g","e","n","r","e">>)),
                Item(<<"p","r","o","j","e","c","t","_","i","d">>, Get(Get(prompt, <<"s","e","r","i","e","s">>), <<"t","i","t","l","e">>)),
                Item(<<"s","c","h","e","m","a","_","i","d">>, JStr(<<"S","c","r","i","p","t">>)),
                Item(<<"s","c","h","e","m","a","_","v","e","r","s","i","o","n">>, JStr(<<"1",".","0",".","0">>)),
                Item(<<"s","c","e","n","e","s">>, JList(<<scene>>)),
                Item(<<"s","c","r","i","p","t","_","i","d">>, Get(prompt, <<"p","r","o","m","p","t","_","i","d">>)),
                Item(<<"t","i","t","l","e">>, Get(prompt, <<"e","p","i","s","o","d","e","_","g","o","a","l">>))>>)

----------------------------------------------------------------------------
(* validator.validate_prompt_dict *)

\* isinstance(v, str) and v.strip()
NonEmptyStr(v) == v.t = "str" /\ strip(v.s) # <<>>

\* validate_prompt_dict: schema_valid is the verdict of jsonschema.validate
\* on the data; the result is the ValidationError raised, or "" for none.
validate_prompt_dict(data, schema_valid) ==
    LET series == DictGet(data, <<"s","e","r","i","e","s">>, JNull)
        setting == DictGet(data, <<"s","e","t","t","i","n","g">>, JNull)
        characters == DictGet(data, <<"c","h","a","r","a","c","t","e","r","s">>, JNull)
        constraints == DictGet(data, <<"c","o","n","s","t","r","a","i","n","t","s">>, JNull)
    IN  IF ~schema_valid THEN "StoryPrompt violates contract schema"
        ELSE IF DictGet(data, <<"s","c","h","e","m","a","_","i","d">>, JNull) # JStr(<<"S","t","o","r","y","P","r","o","m","p","t">>)
        THEN "schema_id must be 'StoryPrompt'"
        ELSE IF \E field \in {<<"s","c","h","e","m","a","_","v","e","r","s","i","o","n">>, <<"p","r","o","m","p","t","_","i","d">>, <<"e","p","i","s","o","d","e","_","g","o","a","l">>} :
                    ~NonEmptyStr(DictGet(data, field, JNull))
        THEN "must be a non-empty string"
        ELSE IF DictGet(data, <<"g","e","n","e","r","a","t","i","o","n","_","s","e","e","d">>, JNull) = JNull
        THEN "'generation_seed' must not be None"
        ELSE IF series.t # "dict" THEN "'series' must be a JSON object"
        ELSE IF \E field \in {<<"t","i","t","l","e">>, <<"g","e","n","r","e">>, <<"t","o","n","e">>} :
                    ~NonEmptyStr(DictGet(series, field, JNull))
        THEN "series field must be a non-empty string"
        ELSE IF setting.t # "dict" THEN "'setting' must be a JSON object"
        ELSE IF ~NonEmptyStr(DictGet(setting, <<"p","r","i","m","a","r","y","_","l","o","c","a","t","i","o","n">>, JNull))
        THEN "'setting.primary_location' must be a non-empty string"
        ELSE IF characters.t # "list" \/ Len(characters.items) < 2
        THEN "'characters' must be a list with at least 2 entries"
        ELSE IF \E i \in 1..Len(characters.items) :
                    characters.items[i].t # "dict"
        THEN "characters[i] must be a JSON object"
        ELSE IF \E i \in 1..Len(characters.items) :
                    \E field \in {<<"i","d">>, <<"r","o","l","e">>} :
                        ~NonEmptyStr(
                            DictGet(characters.items[i], field, JNull))
        THEN "characters[i] field must be a non-empty string"
        ELSE IF constraints.t # "dict"
        THEN "'constraints' must be a JSON object"
        ELSE IF DictGet(constraints, <<"m","a","x","_","s","c","e","n","e","s">>, JNull).t # "int"
                \/ DictGet(constraints, <<"m","a","x","_","s","c","e","n","e","s">>, JNull).n <= 0
        THEN "'constraints.max_scenes' must be a positive integer"
        ELSE ""

----------------------------------------------------------------------------
(* The schema check.  jsonschema is a library outside the repository: what *)
(* Draft7Validator(schema).iter_errors(data) yields for a fixture is an    *)
(* input of the run, held with the fixture (schema_errors, the number of   *)
(* errors; their messages are e1, e2, ... in validator order).             *)

SCHEMA_MAP ==
    <<Item(<<"S","c","r","i","p","t">>, <<"S","c","r","i","p","t",".","v","1",".","j","s","o","n">>),
      Item(<<"S","h","o","t","L","i","s","t">>, <<"S","h","o","t","L","i","s","t",".","v","1",".","j","s","o","n">>),
      Item(<<"A","s","s","e","t","M","a","n","i","f","e","s","t">>, <<"A","s","s","e","t","M","a","n","i","f","e","s","t",".","v","1",".","j","s","o","n">>),
      Item(<<"R","e","n","d","e","r","P","l","a","n">>, <<"R","e","n","d","e","r","P","l","a","n",".","v","1",".","j","s","o","n">>),
      Item(<<"R","e","n","d","e","r","O","u","t","p","u","t">>, <<"R","e","n","d","e","r","O","u","t","p","u","t",".","v","1",".","j","s","o","n">>),
      Item(<<"R","e","n","d","e","r","P","a","c","k","a","g","e">>, <<"R","e","n","d","e","r","P","a","c","k","a","g","e",".","v","1",".","j","s","o","n">>),
      Item(<<"E","p","i","s","o","d","e","B","u","n","d","l","e">>, <<"E","p","i","s","o","d","e","B","u","n","d","l","e",".","v","1",".","j","s","o","n">>)>>

\* e.message of the i-th error the validator yields.
ErrorMessage(i) == <<"e">> \o int_repr(i)

\* "; ".join(msgs)
RECURSIVE join_messages(_, _)
join_messages(msgs, i) ==
    IF i > Len(msgs) THEN <<>>
    ELSE (IF i > 1 THEN <<";"," ">> ELSE <<>>) \o msgs[i] \o join_messages(msgs, i + 1)

SchemaInvalid(golden_name, detail, text) ==
    Record("SCHEMA_INVALID", golden_name, detail, <<>>, text)

FirstThree_all(errs) == errs

\* errs[:3]
FirstThree(errs) == SubSeq(errs, 1, IF Len(errs) < 3 THEN Len(errs) ELSE 3)

\* A stem without entry in SCHEMA_MAP takes the schema <stem>.v1.json.
check_schema_default_schema(n_errors, golden_name, schema_files, broken) ==
    LET schema_file == Stem(golden_name) \o <<".","v","1",".","j","s","o","n">>
    IN  IF schema_file \notin schema_files
        THEN <<SchemaInvalid(golden_name, "schema file not found",
                             <<"s","c","h","e","m","a","s","/">> \o schema_file)>>
        ELSE <<>>

\* A mapped stem whose schema file is absent is skipped.
check_schema_missing_file_skipped(n_errors, golden_name, files, broken) ==
    <<>>

\* check_schema(data, golden_name, schemas_dir): schema_files are the files
\* of the schemas directory, broken_schemas those whose loading or use
\* raises, n_errors the number of errors the validator yields for data.
check_schema(n_errors, golden_name, schema_files, broken_schemas) ==
    LET stem == Stem(golden_name)
        mapped == {i \in 1..Len(SCHEMA_MAP) : SCHEMA_MAP[i].k = stem}
        schema_file == SCHEMA_MAP[CHOOSE i \in mapped : TRUE].v
        errs == [i \in 1..n_errors |-> ErrorMessage(i)]
    IN  IF mapped = {} THEN <<>>
        ELSE IF schema_file \notin schema_files
        THEN <<SchemaInvalid(golden_name, "schema file not found",
                             <<"s","c","h","e","m","a","s","/">> \o schema_file)>>
        ELSE IF schema_file \in broken_schemas
        THEN <<SchemaInvalid(golden_name, "exception", <<>>)>>
        ELSE IF errs # <<>>
        THEN <<SchemaInvalid(golden_name, "validation errors",
                             join_messages(FirstThree(errs), 1))>>
        ELSE <<>>

----------------------------------------------------------------------------
(* Paths.  A path is the sequence of its components below the contracts    *)
(* directory.                                                              *)

\* str(path): the components joined by "/".
RECURSIVE PathStr(_)
PathStr(path) ==
    IF Len(path) = 0 THEN <<>>
    ELSE IF Len(path) = 1 THEN path[1]
    ELSE path[1] \o <<"/">> \o PathStr(Tail(path))

\* path.name
PathName(path) == path[Len(path)]

\* PurePath.__lt__: the sequences of components compare as Python lists of
\* str do.
PathLess(p, q) ==
    \E i \in 1..(Len(p) + 1) :
        /\ i <= Len(q)
        /\ \A j \in 1..(i - 1) : p[j] = q[j]
        /\ (i = Len(p) + 1 \/ StrLess(p[i], q[i]))

sorted_unsorted(paths) == paths

\* sorted(paths): each path goes before the first greater one.
RECURSIVE sorted_prefix(_, _)
sorted_prefix(paths, n) ==
    IF n = 0 THEN <<>>
    ELSE LET rest == sorted_prefix(paths, n - 1)
             p == paths[n]
             before == {j \in 1..Len(rest) : ~PathLess(p, rest[j])}
         IN  SubSeq(rest, 1, Cardinality(before)) \o <<p>>
             \o SubSeq(rest, Cardinality(before) + 1, Len(rest))

sorted(paths) == sorted_prefix(paths, Len(paths))

EndsWith(s, suffix) ==
    /\ Len(s) >= Len(suffix)
    /\ SubSeq(s, Len(s) - Len(suffix) + 1, Len(s)) = suffix

\* The files goldens_dir.rglob("*.json") yields, in any order.
Enumerations(files) ==
    LET found == {f.path : f \in {g \in files :
                                     EndsWith(PathName(g.path), <<".","j","s","o","n">>)}}
    IN  {e \in [1..Cardinality(found) -> found] :
            \A i, j \in DOMAIN e : i # j => e[i] # e[j]}

\* golden_path.read_bytes()
ReadBytes(path) == (CHOOSE f \in fs.goldens : f.path = path).raw

SchemaErrorsOf(path) == (CHOOSE f \in fs.goldens : f.path = path).schema_errors

----------------------------------------------------------------------------
(* Output lines *)

NoRecord == Record("", <<>>, "", <<>>, <<>>)

Line(tag, path, err, n, m) ==
    [tag |-> tag, path |-> path, err |-> err, n |-> n, m |-> m]

\* The lines of one entry of results.
ResultLines(result) ==
    IF result.file_errors # <<>>
    THEN [i \in 1..Len(result.file_errors) |->
             Line("FAIL", result.rel_path, result.file_errors[i], 0, 0)]
    ELSE <<Line("PASS", result.rel_path, NoRecord, 0, 0)>>

RECURSIVE AllResultLines(_, _)
AllResultLines(rs, i) ==
    IF i > Len(rs) THEN <<>>
    ELSE ResultLines(rs[i]) \o AllResultLines(rs, i + 1)

PV_ERROR == Record("MISSING", <<"c","o","m","p","a","t","/","p","r","o","t","o","c","o","l","_","v","e","r","s","i","o","n",".","j","s","o","n">>, "", <<>>, <<>>)

----------------------------------------------------------------------------
(* The run: main() and run_checks() *)

\* run_checks without Check 0.
BeginRunChecks_no_protocol_check ==
    /\ pc = "start"
    /\ allowlist' = IF fs.allowlist.exists THEN fs.allowlist.data
                    ELSE JDict(<<>>)
    /\ results' = <<>>
    /\ all_errors' = <<>>
    /\ pc' = "discover"
    /\ UNCHANGED <<fs, enumerated, golden_paths, golden_count, idx, stdout,
                   exit_status, arg, ret>>

\* run_checks up to the protocol-version check: the allowlist is loaded and
\* a missing protocol_version.json is recorded and printed.
BeginRunChecks ==
    /\ pc = "start"
    /\ allowlist' = IF fs.allowlist.exists THEN fs.allowlist.data
                    ELSE JDict(<<>>)
    /\ results' = <<>>
    /\ IF ~fs.protocol_version
       THEN /\ all_errors' = <<PV_ERROR>>
            /\ stdout' = Append(stdout, Line("FAIL", <<>>, PV_ERROR, 0, 0))
       ELSE /\ all_errors' = <<>>
            /\ UNCHANGED stdout
    /\ pc' = "discover"
    /\ UNCHANGED <<fs, enumerated, golden_paths, golden_count, idx,
                   exit_status, arg, ret>>

\* A missing goldens directory reported as a violation.
ReturnNoGoldensDir_error ==
    /\ pc = "discover"
    /\ ~fs.goldens_dir
    /\ golden_count' = 0
    /\ all_errors' = Append(all_errors,
                            Record("MISSING", <<"g","o","l","d","e","n","s">>, "", <<>>, <<>>))
    /\ pc' = "returned"
    /\ UNCHANGED <<fs, allowlist, enumerated, golden_paths, idx, results,
                   stdout, exit_status, arg, ret>>

\* "if not goldens_dir.exists(): return all_errors, 0"
ReturnNoGoldensDir ==
    /\ pc = "discover"
    /\ ~fs.goldens_dir
    /\ golden_count' = 0
    /\ pc' = "returned"
    /\ UNCHANGED <<fs, allowlist, enumerated, golden_paths, idx, results,
                   all_errors, stdout, exit_status, arg, ret>>

\* golden_paths = sorted(goldens_dir.rglob("*.json"))
CollectGoldens ==
    /\ pc = "discover"
    /\ fs.goldens_dir
    /\ \E e \in Enumerations(fs.goldens) :
          /\ enumerated' = e
          /\ golden_paths' = sorted(e)
    /\ golden_count' = Len(golden_paths')
    /\ idx' = 1
    /\ pc' = "loop"
    /\ UNCHANGED <<fs, allowlist, results, all_errors, stdout, exit_status,
                   arg, ret>>

\* The body of the loop with the checks short-circuiting: a check runs
\* only when the checks before it found nothing.
FileErrors_short_circuit(golden_path) ==
    LET body(rel_path, canonical, loaded) ==
            IF canonical.raised # "no"
            THEN [raised |-> canonical.raised, file_errors |-> <<>>]
            ELSE IF canonical.errors # <<>>
            THEN [raised |-> "no", file_errors |-> canonical.errors]
            ELSE [raised |-> "no",
                  file_errors |->
                      LET schema == check_schema(
                                        SchemaErrorsOf(golden_path),
                                        PathName(golden_path),
                                        fs.schema_files, fs.broken_schemas)
                      IN  IF schema # <<>> THEN schema
                          ELSE check_determinism(loaded.data,
                                                 PathName(golden_path),
                                                 allowlist)]
    IN  body(PathStr(golden_path),
             check_canonical(ReadBytes(golden_path), PathStr(golden_path)),
             json_loads(ReadBytes(golden_path)))

\* One pass through the body of "for golden_path in golden_paths":
\* check_canonical, and for bytes that parse, check_schema and
\* check_determinism.  raised names the exception that leaves the body, if
\* one does; file_errors is the list the body appends to results.
FileErrors(golden_path) ==
    LET body(rel_path, canonical, loaded) ==
            IF canonical.raised # "no"
            THEN [raised |-> canonical.raised, file_errors |-> <<>>]
            ELSE IF loaded.raised = "JSONDecodeError"
            THEN [raised |-> "no", file_errors |-> canonical.errors]
            ELSE [raised |-> "no",
                  file_errors |->
                      canonical.errors
                      \o check_schema(SchemaErrorsOf(golden_path),
                                      PathName(golden_path),
                                      fs.schema_files, fs.broken_schemas)
                      \o check_determinism(loaded.data,
                                           PathName(golden_path),
                                           allowlist)]
    IN  body(PathStr(golden_path),
             check_canonical(ReadBytes(golden_path), PathStr(golden_path)),
             json_loads(ReadBytes(golden_path)))

\* One iteration of "for golden_path in golden_paths".
CheckGolden ==
    /\ pc = "loop"
    /\ idx <= Len(golden_paths)
    /\ \E checked \in {FileErrors(golden_paths[idx])} :
          /\ checked.raised = "no"
          /\ results' = Append(results,
                               [rel_path |-> PathStr(golden_paths[idx]),
                                file_errors |-> checked.file_errors])
          /\ all_errors' = all_errors \o checked.file_errors
    /\ idx' = idx + 1
    /\ UNCHANGED <<fs, allowlist, enumerated, golden_paths, golden_count,
                   stdout, exit_status, pc, arg, ret>>

\* An iteration in which json.loads raises UnicodeDecodeError: nothing
\* catches it, the interpreter prints the traceback to stderr and the
\* process exits with status 1.
CheckGoldenRaises ==
    /\ pc = "loop"
    /\ idx <= Len(golden_paths)
    /\ FileErrors(golden_paths[idx]).raised # "no"
    /\ pc' = "exited"
    /\ exit_status' = 1
    /\ UNCHANGED <<fs, allowlist, enumerated, golden_paths, golden_count,
                   idx, results, all_errors, stdout, arg, ret>>

\* The lines of every result, then the summary.
PrintResults_summary_last ==
    /\ pc = "loop"
    /\ idx > Len(golden_paths)
    /\ stdout' = Append(stdout \o AllResultLines(results, 1),
                        Line("Contracts verified", <<>>, NoRecord,
                             golden_count, 0))
    /\ pc' = "returned"
    /\ UNCHANGED <<fs, allowlist, enumerated, golden_paths, golden_count,
                   idx, results, all_errors, exit_status, arg, ret>>

\* After the loop: the summary header, then the lines of every result.
PrintResults ==
    /\ pc = "loop"
    /\ idx > Len(golden_paths)
    /\ stdout' = Append(stdout,
                        Line("Contracts verified", <<>>, NoRecord,
                             golden_count, 0))
                 \o AllResultLines(results, 1)
    /\ pc' = "returned"
    /\ UNCHANGED <<fs, allowlist, enumerated, golden_paths, golden_count,
                   idx, results, all_errors, exit_status, arg, ret>>

\* main() after run_checks returned (errors, count): the RESULT line and
\* sys.exit.
MainResult ==
    /\ pc = "returned"
    /\ LET failed == Len(all_errors)
       IN  IF all_errors # <<>>
           THEN /\ stdout' = Append(stdout,
                                    Line("RESULT: FAIL", <<>>, NoRecord,
                                         failed, golden_count))
                /\ exit_status' = 1
           ELSE /\ stdout' = Append(stdout,
                                    Line("RESULT: PASS", <<>>, NoRecord,
                                         golden_count, golden_count))
                /\ exit_status' = 0
    /\ pc' = "exited"
    /\ UNCHANGED <<fs, allowlist, enumerated, golden_paths, golden_count,
                   idx, results, all_errors, arg, ret>>

----------------------------------------------------------------------------
(* The contracts directories the run is started on *)

MaxGoldens == 2

MaxSchemaErrors == 4

GoldenPaths ==
    {<<<<"g","o","l","d","e","n","s">>, <<"S","c","r","i","p","t",".","j","s","o","n">>>>,
     <<<<"g","o","l","d","e","n","s">>, <<"a">>, <<"x",".","j","s","o","n">>>>,
     <<<<"g","o","l","d","e","n","s">>, <<"a","-","b">>, <<"S","c","r","i","p","t",".","j","s","o","n">>>>}

CLEAN_FILE == <<"{","\"","i","d","\"",":","\"","o","k","\"","}","\n">>

UNSORTED_FILE == <<"{","\"","b","\"",":","1",",","\"","a","\"",":","2","}","\n">>

\* Not canonical (a space after the colon, no newline), and an absolute
\* path under the key id.
ABS_PATH_FILE == <<"{","\"","i","d","\"",":"," ","\"","/","t","\"","}">>

TRUNCATED_FILE == <<"{">>

UNDECODABLE_FILE == <<"xFF">>

GoldenContents ==
    {CLEAN_FILE, UNSORTED_FILE, ABS_PATH_FILE, TRUNCATED_FILE,
     UNDECODABLE_FILE}

\* The validator is only asked about a golden that parses and whose stem
\* is in SCHEMA_MAP; for the others the count is held at 0.
ValidatorAsked(path, raw) ==
    /\ raw \notin {TRUNCATED_FILE, UNDECODABLE_FILE}
    /\ \E i \in 1..Len(SCHEMA_MAP) : SCHEMA_MAP[i].k = Stem(PathName(path))

GoldenSets ==
    UNION {
        {{[path |-> p, raw |-> c[p].raw, schema_errors |-> c[p].schema_errors] :
              p \in P} :
            c \in {d \in [P -> [raw : GoldenContents,
                                schema_errors : {0, 1, MaxSchemaErrors}]] :
                      \A p \in P : d[p].schema_errors # 0
                                      => ValidatorAsked(p, d[p].raw)}} :
        P \in {Q \in SUBSET GoldenPaths : Cardinality(Q) <= MaxGoldens}}

AllowlistFiles ==
    {[exists |-> FALSE, data |-> JDict(<<>>)],
     [exists |-> TRUE,
      data |-> JDict(<<Item(<<"S","c","r","i","p","t">>, JDict(<<Item(<<"i","d">>, JDict(<<>>))>>))>>)]}

Init ==
    /\ fs \in [protocol_version : BOOLEAN,
               goldens_dir : {TRUE},
               goldens : GoldenSets,
               allowlist : AllowlistFiles,
               schema_files : {{}, {<<"S","c","r","i","p","t",".","v","1",".","j","s","o","n">>}},
               broken_schemas : {{}}]
              \cup [protocol_version : BOOLEAN,
                    goldens_dir : {TRUE},
                    goldens : GoldenSets,
                    allowlist : AllowlistFiles,
                    schema_files : {{<<"S","c","r","i","p","t",".","v","1",".","j","s","o","n">>}},
                    broken_schemas : {{<<"S","c","r","i","p","t",".","v","1",".","j","s","o","n">>}}]
              \cup [protocol_version : BOOLEAN,
                    goldens_dir : {FALSE},
                    goldens : {{}},
                    allowlist : AllowlistFiles,
                    schema_files : {{}, {<<"S","c","r","i","p","t",".","v","1",".","j","s","o","n">>}},
                    broken_schemas : {{}}]
    /\ allowlist = JDict(<<>>)
    /\ enumerated = <<>>
    /\ golden_paths = <<>>
    /\ golden_count = 0
    /\ idx = 0
    /\ results = <<>>
    /\ all_errors = <<>>
    /\ stdout = <<>>
    /\ exit_status = -1
    /\ pc = "start"
    /\ arg = <<>>
    /\ ret = <<>>

Next ==
    \/ BeginRunChecks
    \/ ReturnNoGoldensDir
    \/ CollectGoldens
    \/ CheckGolden
    \/ CheckGoldenRaises
    \/ PrintResults
    \/ MainResult

Spec == Init /\ [][Next]_vars

----------------------------------------------------------------------------
(* Inputs of the classifier: seed strings and their edits *)

MaxEdits == 1

EditChars == {"0", "\n"}

ClassifySeeds ==
    {EPOCH_SENTINEL,
     <<"2","0","2","4","-","0","5","-","0","6","T","0","7",":","0","8",":","0","9",".","5","+","0","0",":","0","0">>,
     <<"5","5","0","e","8","4","0","0","-","e","2","9","b","-","4","1","d","4","-","a","7","1","6","-","4","4","6","6","5","5","4","4","0","0","0","0">>,
     PLACEHOLDER_URI,
     <<"f","i","l","e",":","/","/","/","p","l","a","c","e","h","o","l","d","e","r","/","a">>,
     <<"f","i","l","e",":","/","/","/","t","m","p","/","x">>,
     <<"f","i","l","e",":","/","/","h","o","s","t","/","x">>,
     <<"/","t","m","p","/","x">>,
     <<"C",":","\\","x">>,
     <<"/","T","m","p">>,
     <<"1","9","7","0","-","0","1","-","0","1","T","0","0",":","0","0",":","0","U+0663","Z">>,
     <<"h","e","l","l","o">>}

Delete(s, i) == SubSeq(s, 1, i - 1) \o SubSeq(s, i + 1, Len(s))

Insert(s, i, c) == SubSeq(s, 1, i - 1) \o <<c>> \o SubSeq(s, i, Len(s))

EditsOf(s) ==
    {Delete(s, i) : i \in 1..Len(s)}
    \cup {Insert(s, i, c) : i \in 1..(Len(s) + 1), c \in EditChars}

RECURSIVE Edited(_, _)
Edited(S, n) ==
    IF n = 0 THEN S ELSE Edited(S \cup UNION {EditsOf(s) : s \in S}, n - 1)

ClassifyValues == Edited(ClassifySeeds, MaxEdits)

\* A record an earlier value of the same walk left in the list.
EarlierRecord == NonDeterministic(<<"g","/","S","c","r","i","p","t",".","j","s","o","n">>, <<"a","t">>, "datetime", <<"2">>)

FIELD == <<"i","d">>

REL_PATH == <<"S","c","r","i","p","t",".","j","s","o","n">>

NoRun ==
    /\ fs = <<>>
    /\ allowlist = <<>>
    /\ enumerated = <<>>
    /\ golden_paths = <<>>
    /\ golden_count = 0
    /\ idx = 0
    /\ results = <<>>
    /\ all_errors = <<>>
    /\ stdout = <<>>
    /\ exit_status = -1

InitClassify ==
    /\ NoRun
    /\ pc = "call"
    /\ arg \in [value : ClassifyValues, errors : {<<>>, <<EarlierRecord>>}]
    /\ ret = <<>>

CallCheckStringValue ==
    /\ pc = "call"
    /\ ret' = check_string_value(arg.value, FIELD, REL_PATH, arg.errors)
    /\ pc' = "return"
    /\ UNCHANGED <<arg, runvars>>

NextClassify == CallCheckStringValue

SpecClassify == InitClassify /\ [][NextClassify]_vars

----------------------------------------------------------------------------
(* Inputs of the scanner: documents nested to MaxDepth, and allowlists *)

MaxDepth == 3

UUID_VALUE == <<"5","5","0","e","8","4","0","0","-","e","2","9","b","-","4","1","d","4","-","a","7","1","6","-","4","4","6","6","5","5","4","4","0","0","0","0">>

StringLeaves == {JStr(<<"o","k">>), JStr(<<"/","t">>), JStr(UUID_VALUE)}

Leaves == StringLeaves \cup {JNull, JInt(1), JBool(TRUE)}

WalkKeys == {<<"i","d">>, <<"p">>}

Wrapped(D) ==
    {JList(<<x>>) : x \in D}
    \cup {JList(<<x, JStr(<<"/","t">>)>>) : x \in D}
    \cup {JDict(<<Item(k, x)>>) : k \in WalkKeys, x \in D}
    \cup {JDict(<<Item(kk[1], x), Item(kk[2], y)>>) :
             kk \in {q \in WalkKeys \X WalkKeys : q[1] # q[2]}, x \in D,
             y \in {JStr(<<"/","t">>)}}

RECURSIVE Nested(_)
Nested(depth) ==
    IF depth = 0 THEN Leaves ELSE Leaves \cup Wrapped(Nested(depth - 1))

WalkDocs == Nested(MaxDepth)

\* field_allowlist.json as parsed: stem -> {field name -> metadata}.
Allowlists ==
    {JDict(<<>>),
     JDict(<<Item(<<"S","c","r","i","p","t">>, JDict(<<Item(<<"i","d">>, JDict(<<>>))>>))>>),
     JDict(<<Item(<<"S","h","o","t","L","i","s","t">>, JDict(<<Item(<<"i","d">>, JDict(<<>>))>>)),
             Item(<<"S","c","r","i","p","t">>, JDict(<<Item(<<"p">>, JNull), Item(<<>>, JNull)>>))>>)}

GOLDEN_NAME == <<"S","c","r","i","p","t",".","j","s","o","n">>

InitWalk ==
    /\ NoRun
    /\ pc = "call"
    /\ arg \in [data : WalkDocs, allowlist : Allowlists]
    /\ ret = <<>>

CallCheckDeterminism ==
    /\ pc = "call"
    /\ ret' = check_determinism(arg.data, GOLDEN_NAME, arg.allowlist)
    /\ pc' = "return"
    /\ UNCHANGED <<arg, runvars>>

NextWalk == CallCheckDeterminism

SpecWalk == InitWalk /\ [][NextWalk]_vars

----------------------------------------------------------------------------
(* Inputs of the canonical-form checker: documents nested to MaxNest,      *)
(* written to bytes in several styles.                                     *)

MaxNest == 2

CanonLeaves ==
    {JNull, JBool(TRUE), JBool(FALSE), JInt(0), JInt(1), JInt(0 - 12),
     JStr(<<>>), JStr(<<"\"","\\","\n">>), JStr(<<"U+00E9">>)}

CanonKeys == {<<"a">>, <<"b">>}

CanonWrapped(D) ==
    {JList(<<x>>) : x \in D}
    \cup {JList(<<x, JInt(2)>>) : x \in D}
    \cup {JDict(<<Item(k, x)>>) : k \in CanonKeys, x \in D}
    \cup {JDict(<<Item(kk[1], x), Item(kk[2], JInt(2))>>) :
             kk \in {<<<<"a">>, <<"b">>>>, <<<<"b">>, <<"a">>>>, <<<<"a">>, <<"a">>>>}, x \in D}

RECURSIVE CanonNested(_)
CanonNested(depth) ==
    IF depth = 0 THEN CanonLeaves \cup {JList(<<>>), JDict(<<>>)}
    ELSE CanonLeaves \cup CanonWrapped(CanonNested(depth - 1))

\* Documents as written in a file: an object may repeat a key.
CanonDocs == CanonNested(MaxNest)

Style(item_sep, key_sep, ensure_ascii, lead, tail, cut) ==
    [item_sep |-> item_sep, key_sep |-> key_sep,
     ensure_ascii |-> ensure_ascii, lead |-> lead, tail |-> tail, cut |-> cut]

\* How a file was written: the separators, whether non-ASCII characters are
\* escaped, what precedes and follows the text, and how many bytes the end
\* of the file lost.
Styles ==
    {Style(<<",">>, <<":">>, TRUE, <<>>, <<"\n">>, 0),
     Style(<<",">>, <<":">>, TRUE, <<>>, <<>>, 0),
     Style(<<",">>, <<":">>, TRUE, <<>>, <<"\n","\n">>, 0),
     Style(<<",">>, <<":">>, TRUE, <<>>, <<" ","\n">>, 0),
     Style(<<",">>, <<":">>, TRUE, <<" ">>, <<"\n">>, 0),
     Style(<<","," ">>, <<":"," ">>, TRUE, <<>>, <<"\n">>, 0),
     Style(<<",">>, <<":">>, FALSE, <<>>, <<"\n">>, 0),
     Style(<<",">>, <<":">>, TRUE, <<>>, <<"\n">>, 2)}

\* The bytes of document d written in the given style.
Written(d, style) ==
    LET text == style.lead
                \o json_dumps(d, FALSE, style.ensure_ascii, style.item_sep,
                              style.key_sep)
                \o style.tail
        bytes == encode_utf8(text, 1)
    IN  SubSeq(bytes, 1, Len(bytes) - style.cut)

\* Files that are not UTF-8 text.
UndecodableFiles == {<<"xFF">>, <<"{","\"","a","\"",":","\"">> \o <<"xC3">> \o <<"\"","}","\n">>}

CanonInputs ==
    {Written(d, style) : d \in CanonDocs, style \in Styles}
    \cup UndecodableFiles

\* The value of a dict literal that lists these items: a repeated key keeps
\* its first place and takes its last value.
RECURSIVE AsData(_)
RECURSIVE DictOf(_, _)
DictOf(members, n) ==
    IF n = 0 THEN <<>>
    ELSE DictSet(DictOf(members, n - 1), members[n].k, AsData(members[n].v))

AsData(d) ==
    IF d.t = "list"
    THEN JList([i \in 1..Len(d.items) |-> AsData(d.items[i])])
    ELSE IF d.t = "dict" THEN JDict(DictOf(d.members, Len(d.members)))
    ELSE d

InitCanon ==
    /\ NoRun
    /\ pc = "call"
    /\ \/ arg \in [raw_bytes : CanonInputs, data : {JNull}, op : {"check"}]
       \/ arg \in [raw_bytes : {<<>>}, data : {AsData(d) : d \in CanonDocs},
                   op : {"canonicalise"}]
    /\ ret = <<>>

\* check_canonical(raw_bytes, rel_path) on the bytes of a file.
CallCheckCanonical ==
    /\ pc = "call"
    /\ arg.op = "check"
    /\ ret' = check_canonical(arg.raw_bytes, REL_PATH)
    /\ pc' = "return"
    /\ UNCHANGED <<arg, runvars>>

\* canonical_bytes(data), and then check_canonical and canonical_bytes again
\* on what it returned.
CallCanonicalBytes ==
    /\ pc = "call"
    /\ arg.op = "canonicalise"
    /\ LET bytes == canonical_bytes(arg.data)
           loaded == json_loads(bytes)
       IN  ret' = [bytes |-> bytes,
                   checked |-> check_canonical(bytes, REL_PATH),
                   loaded |-> loaded.raised,
                   again |-> IF loaded.raised = "no"
                             THEN canonical_bytes(loaded.data) ELSE <<>>]
    /\ pc' = "return"
    /\ UNCHANGED <<arg, runvars>>

NextCanon == CallCheckCanonical \/ CallCanonicalBytes

SpecCanon == InitCanon /\ [][NextCanon]_vars

----------------------------------------------------------------------------
(* check_schema on its own: one call, for a fixture name, a schemas         *)
(* directory and the number of errors the validator yields for the data.   *)

SchemaGoldenNames ==
    {<<"S","c","r","i","p","t",".","j","s","o","n">>, <<"S","h","o","t","L","i","s","t",".","j","s","o","n">>, <<"S","c","r","i","p","t">>, <<"x",".","j","s","o","n">>, <<"s","c","r","i","p","t",".","j","s","o","n">>,
     <<"S","c","r","i","p","t",".","v","1",".","j","s","o","n">>}

\* The schemas directory: its files, and those among them that do not load.
SchemaDirs ==
    {[schema_files |-> {}, broken_schemas |-> {}],
     [schema_files |-> {<<"x",".","v","1",".","j","s","o","n">>, <<"s","c","r","i","p","t",".","v","1",".","j","s","o","n">>},
      broken_schemas |-> {}],
     [schema_files |-> {<<"S","c","r","i","p","t",".","v","1",".","j","s","o","n">>}, broken_schemas |-> {}],
     [schema_files |-> {<<"S","c","r","i","p","t",".","v","1",".","j","s","o","n">>, <<"S","h","o","t","L","i","s","t",".","v","1",".","j","s","o","n">>},
      broken_schemas |-> {}],
     [schema_files |-> {<<"S","c","r","i","p","t",".","v","1",".","j","s","o","n">>, <<"S","h","o","t","L","i","s","t",".","v","1",".","j","s","o","n">>},
      broken_schemas |-> {<<"S","c","r","i","p","t",".","v","1",".","j","s","o","n">>}]}

InitSchema ==
    /\ NoRun
    /\ pc = "call"
    /\ arg \in [n_errors : 0..MaxSchemaErrors,
                golden_name : SchemaGoldenNames,
                dir : SchemaDirs]
    /\ ret = <<>>

CallCheckSchema ==
    /\ pc = "call"
    /\ ret' = check_schema(arg.n_errors, arg.golden_name,
                           arg.dir.schema_files, arg.dir.broken_schemas)
    /\ pc' = "return"
    /\ UNCHANGED <<arg, runvars>>

NextSchema == CallCheckSchema

SpecSchema == InitSchema /\ [][NextSchema]_vars

----------------------------------------------------------------------------
(* The compile command of cli.py: one run of compile_story on a story      *)
(* file, an --out path and the --skip-canon flag.  fs holds the file at    *)
(* --out and the temporary file; ret holds the locals of the run and what  *)
(* the system answered to it.                                              *)

MaxStoryEdits == 1

STORY_LINES ==
    <<<<"p","r","o","m","p","t","_","i","d",":"," ","e","p","0","0","1">>,
      <<"e","p","i","s","o","d","e","_","g","o","a","l",":"," ","I","n","t","r","o","d","u","c","e"," ","t","h","e"," ","h","e","r","o">>,
      <<"g","e","n","e","r","a","t","i","o","n","_","s","e","e","d",":"," ","4","2">>,
      <<"s","e","r","i","e","s","_","t","i","t","l","e",":"," ","T","e","s","t"," ","S","e","r","i","e","s">>,
      <<"s","e","r","i","e","s","_","g","e","n","r","e",":"," ","w","e","s","t","e","r","n">>,
      <<"s","e","r","i","e","s","_","t","o","n","e",":"," ","g","r","i","t","t","y">>,
      <<"p","r","i","m","a","r","y","_","l","o","c","a","t","i","o","n",":"," ","O","l","d"," ","W","e","s","t"," ","T","o","w","n">>,
      <<"m","a","x","_","s","c","e","n","e","s",":"," ","3">>,
      <<"c","h","a","r","a","c","t","e","r",":"," ","a","l","i","c","e"," ","T","h","e"," ","S","h","e","r","i","f","f">>,
      <<"c","h","a","r","a","c","t","e","r",":"," ","b","o","b"," ","T","h","e"," ","O","u","t","l","a","w">>>>

\* Lines an edit puts into the story: in place of the line of the same
\* key, or after the last line.
OtherLines ==
    {<<"p","r","o","m","p","t","_","i","d",":"," ","e","p","0","0","2">>, <<"p","r","o","m","p","t","_","i","d",":">>, <<"m","o","o","d",":"," ","d","a","r","k">>, <<"n","o"," ","c","o","l","o","n"," ","h","e","r","e">>,
     <<"c","h","a","r","a","c","t","e","r",":"," ","s","o","l","o">>, <<"#"," ","n","o","t","e">>, <<"m","a","x","_","s","c","e","n","e","s",":"," ","0">>, <<"m","a","x","_","s","c","e","n","e","s",":"," ","x">>,
     <<"g","e","n","e","r","a","t","i","o","n","_","s","e","e","d",":"," ","x">>, <<" "," ","G","e","n","e","r","a","t","i","o","n","_","S","e","e","d"," ",":"," "," ","-","4"," "," ">>,
     <<"p","r","i","m","a","r","y","_","l","o","c","a","t","i","o","n",":"," ","N","i","g","h","t"," ","M","a","r","k","e","t">>}

DeleteLine(lines, i) == SubSeq(lines, 1, i - 1) \o SubSeq(lines, i + 1, Len(lines))

ReplaceLine(lines, other) ==
    [i \in 1..Len(lines) |->
        IF lower(strip(partition_colon(lines[i]).key))
               = lower(strip(partition_colon(other).key))
        THEN other ELSE lines[i]]

RECURSIVE EditedStories(_)
EditedStories(n) ==
    IF n = 0 THEN {STORY_LINES}
    ELSE LET fewer == EditedStories(n - 1)
         IN  fewer
             \cup {DeleteLine(s, i) : s \in fewer, i \in 1..Len(STORY_LINES)}
             \cup {ReplaceLine(s, other) : s \in fewer, other \in OtherLines}
             \cup {Append(s, other) : s \in fewer, other \in OtherLines}

RECURSIVE JoinLines(_, _)
JoinLines(lines, i) ==
    IF i > Len(lines) THEN <<>>
    ELSE lines[i] \o <<"\n">> \o JoinLines(lines, i + 1)

StoryFiles ==
    {[read |-> "text", raw |-> JoinLines(s, 1)] :
        s \in EditedStories(MaxStoryEdits)}
    \cup {[read |-> "OSError", raw |-> <<>>],
          [read |-> "UnicodeDecodeError", raw |-> <<>>]}

Absent == [exists |-> FALSE, content |-> <<>>]

File(content) == [exists |-> TRUE, content |-> content]

\* What the system answers when world-engine is looked up and run.
WorldEngines ==
    {"not_found", "invoke_fails", "returncode_nonzero", "returncode_zero"}

OLD_OUT == <<"{","\"","o","l","d","\"",":"," ","t","r","u","e","}","\n">>

\* The variables of the golden run, which the compile command leaves alone.
NoChecks ==
    /\ allowlist = <<>>
    /\ enumerated = <<>>
    /\ golden_paths = <<>>
    /\ golden_count = 0
    /\ idx = 0
    /\ results = <<>>
    /\ all_errors = <<>>
    /\ stdout = <<>>

checkvars ==
    <<allowlist, enumerated, golden_paths, golden_count, idx, results,
      all_errors, stdout>>

InitCompile ==
    /\ NoChecks
    /\ arg \in [story : StoryFiles,
                skip_canon : BOOLEAN,
                world_engine : WorldEngines,
                out_before : {Absent, File(OLD_OUT)}]
    /\ fs = [out |-> arg.out_before, tmp |-> Absent]
    /\ ret = [prompt_dict |-> JNull,
              stderr |-> <<>>,
              raised |-> "",
              failed |-> "",
              tmp_created |-> FALSE,
              world_engine |-> "not_called",
              pending |-> ""]
    /\ exit_status = -1
    /\ pc = "parse"

\* cli.py step 1: CompileError is reported and ends the run with status 1;
\* any other exception leaves the command uncaught, which ends it with
\* status 1 as well.
ParseStory ==
    /\ pc = "parse"
    /\ \E parsed \in {parse_story_file(arg.story)} :
          IF parsed.raised = "no"
          THEN /\ ret' = [ret EXCEPT !.prompt_dict = parsed.data]
               /\ pc' = "validate"
               /\ UNCHANGED exit_status
          ELSE /\ ret' = [ret EXCEPT
                            !.raised = parsed.raised,
                            !.stderr = IF parsed.raised = "CompileError"
                                       THEN Append(@, "ERROR")
                                       ELSE Append(@, "Traceback")]
               /\ exit_status' = 1
               /\ pc' = "exited"
    /\ UNCHANGED <<arg, fs, checkvars>>

\* cli.py step 2.
ValidatePrompt ==
    /\ pc = "validate"
    /\ \E schema_valid \in BOOLEAN :
          IF validate_prompt_dict(ret.prompt_dict, schema_valid) = ""
          THEN /\ pc' = "mkstemp"
               /\ UNCHANGED <<ret, exit_status>>
          ELSE /\ ret' = [ret EXCEPT !.raised = "ValidationError",
                                     !.stderr = Append(@, "ERROR")]
               /\ exit_status' = 1
               /\ pc' = "exited"
    /\ UNCHANGED <<arg, fs, checkvars>>

\* cli.py step 3, tempfile.mkstemp and os.close, which are outside the try
\* statement.
MakeTemp ==
    /\ pc = "mkstemp"
    /\ \E created \in BOOLEAN :
          IF created
          THEN /\ fs' = [fs EXCEPT !.tmp = File(<<>>)]
               /\ ret' = [ret EXCEPT !.tmp_created = TRUE]
               /\ pc' = "write"
               /\ UNCHANGED exit_status
          ELSE /\ ret' = [ret EXCEPT !.raised = "OSError",
                                     !.failed = "mkstemp",
                                     !.stderr = Append(@, "Traceback")]
               /\ exit_status' = 1
               /\ pc' = "exited"
               /\ UNCHANGED fs
    /\ UNCHANGED <<arg, checkvars>>

WriteTemp_writes_out ==
    /\ pc = "write"
    /\ \E written \in BOOLEAN :
          IF written
          THEN /\ fs' = [out |-> File(write_json(ret.prompt_dict)),
                         tmp |-> File(write_json(ret.prompt_dict))]
               /\ pc' = "canon"
               /\ UNCHANGED ret
          ELSE /\ ret' = [ret EXCEPT !.pending = "OSError",
                                     !.failed = "write"]
               /\ pc' = "finally"
               /\ UNCHANGED fs
    /\ UNCHANGED <<arg, exit_status, checkvars>>

\* write_json(prompt_dict, tmp_path), the first statement of the try.
WriteTemp ==
    /\ pc = "write"
    /\ \E written \in BOOLEAN :
          IF written
          THEN /\ fs' = [fs EXCEPT !.tmp = File(write_json(ret.prompt_dict))]
               /\ pc' = "canon"
               /\ UNCHANGED ret
          ELSE /\ ret' = [ret EXCEPT !.pending = "OSError",
                                     !.failed = "write"]
               /\ pc' = "finally"
               /\ UNCHANGED fs
    /\ UNCHANGED <<arg, exit_status, checkvars>>

CanonValidation_codes_swapped ==
    /\ pc = "canon"
    /\ IF arg.skip_canon
       THEN /\ ret' = [ret EXCEPT !.stderr = Append(@, "WARNING")]
            /\ pc' = "move"
       ELSE \E raised \in {run_world_engine_validation(arg.world_engine)} :
               IF raised = "no"
               THEN /\ ret' = [ret EXCEPT !.world_engine = arg.world_engine]
                    /\ pc' = "move"
               ELSE /\ ret' = [ret EXCEPT
                                    !.world_engine = arg.world_engine,
                                    !.stderr = Append(@, "ERROR"),
                                    !.pending =
                                        IF raised = "CompileError"
                                        THEN "SystemExit(1)"
                                        ELSE "SystemExit(2)"]
                    /\ pc' = "finally"
    /\ UNCHANGED <<arg, fs, exit_status, checkvars>>

\* cli.py step 4.
CanonValidation ==
    /\ pc = "canon"
    /\ IF arg.skip_canon
       THEN /\ ret' = [ret EXCEPT !.stderr = Append(@, "WARNING")]
            /\ pc' = "move"
       ELSE \E raised \in {run_world_engine_validation(arg.world_engine)} :
               IF raised = "no"
               THEN /\ ret' = [ret EXCEPT !.world_engine = arg.world_engine]
                    /\ pc' = "move"
               ELSE /\ ret' = [ret EXCEPT
                                    !.world_engine = arg.world_engine,
                                    !.stderr = Append(@, "ERROR"),
                                    !.pending =
                                        IF raised = "CompileError"
                                        THEN "SystemExit(2)"
                                        ELSE "SystemExit(1)"]
                    /\ pc' = "finally"
    /\ UNCHANGED <<arg, fs, exit_status, checkvars>>

\* cli.py step 5: the parent of --out is created, then the temporary file
\* is renamed onto --out; either can raise OSError, and a rename that fails
\* leaves both files as they were.
MoveToOut ==
    /\ pc = "move"
    /\ \E outcome \in {"moved", "mkdir", "replace"} :
          IF outcome = "moved"
          THEN /\ fs' = [out |-> fs.tmp, tmp |-> Absent]
               /\ UNCHANGED ret
          ELSE /\ ret' = [ret EXCEPT !.pending = "OSError",
                                     !.failed = outcome]
               /\ UNCHANGED fs
    /\ pc' = "finally"
    /\ UNCHANGED <<arg, exit_status, checkvars>>

Finally_unlink_on_success_only ==
    /\ pc = "finally"
    /\ fs' = IF ret.pending = "" THEN [fs EXCEPT !.tmp = Absent] ELSE fs
    /\ CASE ret.pending = "" ->
              /\ pc' = "exit"
              /\ UNCHANGED <<ret, exit_status>>
         [] ret.pending = "SystemExit(1)" ->
              /\ exit_status' = 1
              /\ pc' = "exited"
              /\ UNCHANGED ret
         [] ret.pending = "SystemExit(2)" ->
              /\ exit_status' = 2
              /\ pc' = "exited"
              /\ UNCHANGED ret
         [] ret.pending = "OSError" ->
              /\ ret' = [ret EXCEPT !.raised = "OSError",
                                    !.stderr = Append(@, "Traceback")]
              /\ exit_status' = 1
              /\ pc' = "exited"
    /\ UNCHANGED <<arg, checkvars>>

\* The finally clause: os.unlink(tmp_path), whose OSError for a file that
\* is no longer there is passed over; then the pending SystemExit or
\* exception goes on, and an uncaught exception ends the run with status 1.
Finally ==
    /\ pc = "finally"
    /\ fs' = [fs EXCEPT !.tmp = Absent]
    /\ CASE ret.pending = "" ->
              /\ pc' = "exit"
              /\ UNCHANGED <<ret, exit_status>>
         [] ret.pending = "SystemExit(1)" ->
              /\ exit_status' = 1
              /\ pc' = "exited"
              /\ UNCHANGED ret
         [] ret.pending = "SystemExit(2)" ->
              /\ exit_status' = 2
              /\ pc' = "exited"
              /\ UNCHANGED ret
         [] ret.pending = "OSError" ->
              /\ ret' = [ret EXCEPT !.raised = "OSError",
                                    !.stderr = Append(@, "Traceback")]
              /\ exit_status' = 1
              /\ pc' = "exited"
    /\ UNCHANGED <<arg, checkvars>>

\* sys.exit(0), the last statement of compile_story.
ExitZero ==
    /\ pc = "exit"
    /\ exit_status' = 0
    /\ pc' = "exited"
    /\ UNCHANGED <<arg, fs, ret, checkvars>>

NextCompile ==
    \/ ParseStory
    \/ ValidatePrompt
    \/ MakeTemp
    \/ WriteTemp
    \/ CanonValidation
    \/ MoveToOut
    \/ Finally
    \/ ExitZero

SpecCompile == InitCompile /\ [][NextCompile]_vars

----------------------------------------------------------------------------
(* The generate command on two prompts that differ only in their           *)
(* generation_seed: what write_json writes for the Script of each.         *)

MaxSeed == 4

Locations == {<<"O","l","d"," ","W","e","s","t"," ","T","o","w","n">>, <<"N","i","g","h","t"," ","M","a","r","k","e","t">>, <<"M","i","d","n","i","g","h","t"," ","D","o","c","k">>}

\* The StoryPrompt compiled from the story with the given location, and
\* the given seed in place of its own.
PromptWith(location, seed) ==
    LET parsed == parse_lines(
                      ReplaceLine(STORY_LINES,
                                  <<"p","r","i","m","a","r","y","_","l","o","c","a","t","i","o","n",":"," ">> \o location),
                      1, <<>>, <<>>)
    IN  StoryPrompt(parsed.fields, parsed.characters, seed, 3)

InitGenerate ==
    /\ NoRun
    /\ pc = "call"
    /\ arg \in [location : Locations,
                seed_a : (0 - MaxSeed)..MaxSeed,
                seed_b : (0 - MaxSeed)..MaxSeed]
    /\ ret = <<>>

\* cli.generate for each of the two prompts: generate_script, then
\* write_json of the script.
CallGenerate ==
    /\ pc = "call"
    /\ ret' = [a |-> write_json(generate_script(
                         PromptWith(arg.location, arg.seed_a))),
               b |-> write_json(generate_script(
                         PromptWith(arg.location, arg.seed_b)))]
    /\ pc' = "return"
    /\ UNCHANGED <<arg, runvars>>

NextGenerate == CallGenerate

SpecGenerate == InitGenerate /\ [][NextGenerate]_vars

----------------------------------------------------------------------------
(* Properties of the run *)

\* The lines of stdout that report a fixture: PASS lines and the FAIL lines
\* other than the one of the protocol-version check.
IsResultLine(line) ==
    /\ line.tag \in {"PASS", "FAIL"}
    /\ line.err.kind # "MISSING"

ResultLinesPrinted == SelectSeq(stdout, IsResultLine)

SummaryPrinted ==
    \E i \in 1..Len(stdout) : stdout[i].tag = "Contracts verified"

\* The fixtures of the run whose bytes json.loads does not accept.
Unparseable(path) == json_loads(ReadBytes(path)).raised # "no"

\* C1: when the process has exited, its status is 0 if and only if the run
\* recorded no violation (no per-fixture record and no MISSING record), and
\* 1 otherwise.
C1_ExitZeroIffNoViolation ==
    pc = "exited" =>
        /\ exit_status \in {0, 1}
        /\ exit_status = 0 <=> all_errors = <<>>

\* C2: when the process has exited, every discovered fixture whose bytes do
\* not parse as JSON, for whatever reason, has a result entry holding
\* exactly one record, the NOT_CANONICAL record with the parse-error
\* message, and so no SCHEMA_INVALID and no NON_DETERMINISTIC record.
C2_ParseFailureIsOneNotCanonical ==
    pc = "exited" =>
        \A i \in 1..Len(golden_paths) :
            Unparseable(golden_paths[i]) =>
                /\ i <= Len(results)
                /\ results[i].file_errors
                     = <<NotCanonical(PathStr(golden_paths[i]),
                                      "JSON parse error")>>

\* C3: when the process has exited, every discovered fixture has its own
\* result entry, holding the records its own bytes give, and its own PASS or
\* FAIL lines on stdout, whatever the other fixtures of the run are.
C3_EveryFixtureProcessed ==
    pc = "exited" =>
        /\ Len(results) = Len(golden_paths)
        /\ \A i \in 1..Len(golden_paths) :
              /\ results[i].rel_path = PathStr(golden_paths[i])
              /\ results[i].file_errors
                   = FileErrors(golden_paths[i]).file_errors
              /\ \E k \in 1..Len(ResultLinesPrinted) :
                    ResultLinesPrinted[k].path = PathStr(golden_paths[i])

\* The result lines follow the order of golden_paths: every discovered
\* fixture has its lines, and the lines of an earlier fixture come before
\* the lines of a later one.
PrintedInDiscoveryOrder ==
    /\ \A i \in 1..Len(golden_paths) :
          \E k \in 1..Len(ResultLinesPrinted) :
              ResultLinesPrinted[k].path = PathStr(golden_paths[i])
    /\ \A k \in 1..Len(ResultLinesPrinted) :
          \E i \in 1..Len(golden_paths) :
              ResultLinesPrinted[k].path = PathStr(golden_paths[i])
    /\ \A i, j \in 1..Len(golden_paths) :
          \A k, l \in 1..Len(ResultLinesPrinted) :
              /\ i < j
              /\ ResultLinesPrinted[k].path = PathStr(golden_paths[i])
              /\ ResultLinesPrinted[l].path = PathStr(golden_paths[j])
              => k < l

\* C4 as stated: once the results are printed, the result lines are in
\* discovery order, and discovery order is ascending lexicographic order of
\* the relative path strings.
C4_OrderedByPathString ==
    SummaryPrinted =>
        /\ PrintedInDiscoveryOrder
        /\ \A i, j \in 1..Len(golden_paths) :
              i < j => StrLess(PathStr(golden_paths[i]),
                               PathStr(golden_paths[j]))

\* C4: once the results are printed, the result lines are in discovery
\* order, and discovery order is ascending order of the paths compared
\* component by component (a/x.json before a-b/Script.json), whatever order
\* the files were enumerated in.
C4_OrderedByPathComponents ==
    SummaryPrinted =>
        /\ PrintedInDiscoveryOrder
        /\ \A i, j \in 1..Len(golden_paths) :
              i < j => PathLess(golden_paths[i], golden_paths[j])

\* C4 witness: the directories a and a-b were enumerated a-b first, and the
\* lines of a/x.json were printed before those of a-b/Script.json.
C4_Witness ==
    /\ SummaryPrinted
    /\ enumerated = <<<<<<"g","o","l","d","e","n","s">>, <<"a","-","b">>, <<"S","c","r","i","p","t",".","j","s","o","n">>>>,
                      <<<<"g","o","l","d","e","n","s">>, <<"a">>, <<"x",".","j","s","o","n">>>>>>
    /\ golden_paths = <<<<<<"g","o","l","d","e","n","s">>, <<"a">>, <<"x",".","j","s","o","n">>>>,
                        <<<<"g","o","l","d","e","n","s">>, <<"a","-","b">>, <<"S","c","r","i","p","t",".","j","s","o","n">>>>>>
    /\ ResultLinesPrinted[1].path = <<"g","o","l","d","e","n","s","/","a","/","x",".","j","s","o","n">>
    /\ ResultLinesPrinted[Len(ResultLinesPrinted)].path
         = <<"g","o","l","d","e","n","s","/","a","-","b","/","S","c","r","i","p","t",".","j","s","o","n">>

\* The file of a discovered fixture.
GoldenFile(path) == CHOOSE f \in fs.goldens : f.path = path

RecordsOfKind(errors, kind) == SelectSeq(errors, LAMBDA e : e.kind = kind)

\* The fixture parses, its stem is in the schema table and the schema file
\* of the stem is not in the schemas directory.
SchemaFileAbsent(path) ==
    /\ GoldenFile(path).raw \in {CLEAN_FILE, UNSORTED_FILE, ABS_PATH_FILE}
    /\ Stem(PathName(path)) \in {SCHEMA_MAP[k].k : k \in 1..Len(SCHEMA_MAP)}
    /\ (Stem(PathName(path)) \o <<".","v","1",".","j","s","o","n">>) \notin fs.schema_files

\* C12: a parseable fixture with a mapped stem whose schema file is absent
\* has exactly one SCHEMA_INVALID record, "schema file not found"; the
\* determinism check still ran on it (its NON_DETERMINISTIC records are
\* those of check_determinism), and the loop went on to the next fixture.
C12_AbsentSchemaFileIsOneRecord ==
    \A i \in 1..Len(results) :
        SchemaFileAbsent(golden_paths[i]) =>
            /\ Len(RecordsOfKind(results[i].file_errors, "SCHEMA_INVALID"))
                 = 1
            /\ RecordsOfKind(results[i].file_errors, "SCHEMA_INVALID")[1].detail
                 = "schema file not found"
            /\ RecordsOfKind(results[i].file_errors, "NON_DETERMINISTIC")
                 = check_determinism(
                       json_loads(GoldenFile(golden_paths[i]).raw).data,
                       PathName(golden_paths[i]), allowlist)
            /\ idx > i

\* C12 witness: goldens/Script.json holds an absolute path and has no
\* schema file; it got its SCHEMA_INVALID and its NON_DETERMINISTIC record,
\* and the fixture after it was checked too.
C12_Witness ==
    /\ Len(results) = 2
    /\ golden_paths[1] = <<<<"g","o","l","d","e","n","s">>, <<"S","c","r","i","p","t",".","j","s","o","n">>>>
    /\ GoldenFile(golden_paths[1]).raw = ABS_PATH_FILE
    /\ fs.schema_files = {}
    /\ \E j \in 1..Len(results[1].file_errors) :
          /\ results[1].file_errors[j].kind = "NON_DETERMINISTIC"
          /\ results[1].file_errors[j].value = <<"/","t">>
    /\ \E j \in 1..Len(results[1].file_errors) :
          results[1].file_errors[j].detail = "schema file not found"

MissingLines == {j \in 1..Len(stdout) : stdout[j].err.kind = "MISSING"}

\* C14: when compat/protocol_version.json is absent the run has exactly one
\* MISSING record, its FAIL line is on stdout before the summary line and
\* before every result line, and the process exits with status 1 whatever
\* the fixtures are; when the file is present there is no MISSING record
\* and no MISSING line.
C14_MissingReportedFirst ==
    pc # "start" =>
        IF ~fs.protocol_version
        THEN /\ Len(RecordsOfKind(all_errors, "MISSING")) = 1
             /\ Cardinality(MissingLines) = 1
             /\ \A j \in MissingLines :
                   /\ stdout[j] = Line("FAIL", <<>>, PV_ERROR, 0, 0)
                   /\ \A k \in 1..Len(stdout) : k # j => j < k
             /\ pc = "exited" => exit_status = 1
        ELSE /\ RecordsOfKind(all_errors, "MISSING") = <<>>
             /\ MissingLines = {}

\* C14 witness: the file is absent and both fixtures are clean; the MISSING
\* line is first, the summary and two PASS lines follow, the exit status
\* is 1.
C14_Witness ==
    /\ pc = "exited"
    /\ ~fs.protocol_version
    /\ Len(stdout) = 5
    /\ stdout[1].err.kind = "MISSING"
    /\ stdout[2].tag = "Contracts verified"
    /\ stdout[3].tag = "PASS"
    /\ stdout[4].tag = "PASS"
    /\ all_errors = <<PV_ERROR>>
    /\ exit_status = 1

\* C15: when compat/protocol_version.json exists and there is no fixture,
\* the goldens directory being empty or absent, the run counts zero goldens,
\* prints no FAIL line, ends its output with RESULT: PASS (0/0) and exits
\* with status 0.
C15_ZeroFixturesPass ==
    (pc = "exited" /\ fs.protocol_version /\ fs.goldens = {}) =>
        /\ golden_count = 0
        /\ all_errors = <<>>
        /\ \A j \in 1..Len(stdout) : stdout[j].tag # "FAIL"
        /\ Len(stdout) >= 1
        /\ stdout[Len(stdout)] = Line("RESULT: PASS", <<>>, NoRecord, 0, 0)
        /\ exit_status = 0

\* C15 witness: the goldens directory does not exist and the run ended with
\* RESULT: PASS (0/0) and status 0.
C15_Witness ==
    /\ pc = "exited"
    /\ fs.protocol_version
    /\ ~fs.goldens_dir
    /\ stdout = <<Line("RESULT: PASS", <<>>, NoRecord, 0, 0)>>
    /\ exit_status = 0

\* The place of a record's kind in the order of the checks.
CheckRank(kind) ==
    IF kind = "NOT_CANONICAL" THEN 1
    ELSE IF kind = "SCHEMA_INVALID" THEN 2
    ELSE 3

Parses(path) ==
    GoldenFile(path).raw \in {CLEAN_FILE, UNSORTED_FILE, ABS_PATH_FILE}

\* C16: for a fixture that parses, each of the three checks leaves its own
\* records whatever the others found: a NOT_CANONICAL record iff the bytes
\* are not the canonical bytes, the records of check_schema, the records of
\* check_determinism; and the records are in the order canonical form,
\* schema, determinism.
C16_ChecksIndependentAndOrdered ==
    \A i \in 1..Len(results) :
        Parses(golden_paths[i]) =>
            LET file_errors == results[i].file_errors
                raw == GoldenFile(golden_paths[i]).raw
                name == PathName(golden_paths[i])
            IN  /\ \A j, k \in 1..Len(file_errors) :
                      j < k => CheckRank(file_errors[j].kind)
                                 <= CheckRank(file_errors[k].kind)
                /\ (RecordsOfKind(file_errors, "NOT_CANONICAL") # <<>>)
                     <=> (raw # canonical_bytes(json_loads(raw).data))
                /\ RecordsOfKind(file_errors, "SCHEMA_INVALID")
                     = check_schema(GoldenFile(golden_paths[i]).schema_errors,
                                    name, fs.schema_files, fs.broken_schemas)
                /\ RecordsOfKind(file_errors, "NON_DETERMINISTIC")
                     = check_determinism(json_loads(raw).data, name,
                                         allowlist)

\* C16 witness: one fixture carries a NOT_CANONICAL, a SCHEMA_INVALID and
\* a NON_DETERMINISTIC record, in this order.
C16_Witness ==
    \E i \in 1..Len(results) :
        /\ Len(results[i].file_errors) = 3
        /\ results[i].file_errors[1].kind = "NOT_CANONICAL"
        /\ results[i].file_errors[2].kind = "SCHEMA_INVALID"
        /\ results[i].file_errors[3].kind = "NON_DETERMINISTIC"

FailLinesPrinted == SelectSeq(stdout, LAMBDA line : line.tag = "FAIL")

\* The PASS and FAIL lines of stdout for one fixture.
LinesOfFixture(rel_path) ==
    SelectSeq(ResultLinesPrinted, LAMBDA line : line.path = rel_path)

\* C17: when the process has exited, the records on the FAIL lines are the
\* records of the run, each once and in the order produced (so the number
\* of FAIL lines is the violation count that decides the exit status); a
\* fixture without records has exactly one PASS line and a fixture with k
\* records has its k FAIL lines, in order, and no PASS line.
C17_EveryRecordOneFailLine ==
    pc = "exited" =>
        /\ [j \in 1..Len(FailLinesPrinted) |-> FailLinesPrinted[j].err]
             = all_errors
        /\ \A i \in 1..Len(golden_paths) :
              /\ i <= Len(results)
              /\ LinesOfFixture(PathStr(golden_paths[i]))
                   = IF results[i].file_errors = <<>>
                     THEN <<Line("PASS", PathStr(golden_paths[i]), NoRecord,
                                 0, 0)>>
                     ELSE [j \in 1..Len(results[i].file_errors) |->
                              Line("FAIL", PathStr(golden_paths[i]),
                                   results[i].file_errors[j], 0, 0)]

\* C18: in the line RESULT: FAIL (<failed>/<N> failed), N is the number of
\* discovered fixtures and <failed> is the number of fixtures that have at
\* least one record, so <failed> is at most N.
C18_FailedCountsGoldens ==
    \A j \in 1..Len(stdout) :
        stdout[j].tag = "RESULT: FAIL" =>
            /\ stdout[j].m = Len(golden_paths)
            /\ stdout[j].n
                 = Cardinality({i \in 1..Len(results) :
                                   results[i].file_errors # <<>>})
            /\ stdout[j].n <= stdout[j].m

SummaryLines ==
    {j \in 1..Len(stdout) : stdout[j].tag = "Contracts verified"}

FinalLines ==
    {j \in 1..Len(stdout) : stdout[j].tag \in {"RESULT: PASS", "RESULT: FAIL"}}

FixtureLines == {j \in 1..Len(stdout) : IsResultLine(stdout[j])}

C20_SummaryPrintedOnce ==
    (pc = "exited" /\ FinalLines # {}) =>
        /\ Cardinality(SummaryLines) = 1
        /\ \A s \in SummaryLines : stdout[s].n = Len(golden_paths)

----------------------------------------------------------------------------
(* Properties of the schema check *)

\* The stems of the static schema table.
MappedStems ==
    {<<"S","c","r","i","p","t">>, <<"S","h","o","t","L","i","s","t">>, <<"A","s","s","e","t","M","a","n","i","f","e","s","t">>, <<"R","e","n","d","e","r","P","l","a","n">>, <<"R","e","n","d","e","r","O","u","t","p","u","t">>,
     <<"R","e","n","d","e","r","P","a","c","k","a","g","e">>, <<"E","p","i","s","o","d","e","B","u","n","d","l","e">>}

SchemaInvalidRecords(errors) ==
    SelectSeq(errors, LAMBDA e : e.kind = "SCHEMA_INVALID")

\* C11: a fixture whose filename stem has no entry in SCHEMA_MAP gets no
\* SCHEMA_INVALID record from check_schema, whatever the validator would
\* say about its content and whatever the schemas directory holds.
C11_UnmappedStemNoSchemaInvalid ==
    (pc = "return" /\ Stem(arg.golden_name) \notin MappedStems) =>
        SchemaInvalidRecords(ret) = <<>>

\* C11 witness: x.json was checked while x.v1.json is on disk and the
\* validator would yield errors for the data, and no record was returned.
C11_Witness ==
    /\ pc = "return"
    /\ arg.golden_name = <<"x",".","j","s","o","n">>
    /\ <<"x",".","v","1",".","j","s","o","n">> \in arg.dir.schema_files
    /\ arg.n_errors >= 1
    /\ ret = <<>>

\* The schema of the fixture is on disk and loads.
SchemaUsable ==
    /\ Stem(arg.golden_name) \in MappedStems
    /\ (Stem(arg.golden_name) \o <<".","v","1",".","j","s","o","n">>) \in arg.dir.schema_files
    /\ (Stem(arg.golden_name) \o <<".","v","1",".","j","s","o","n">>) \notin arg.dir.broken_schemas

\* The messages e1, e2, e3 joined by "; ", cut after the first k.
JoinedFirst(k) ==
    IF k = 1 THEN <<"e","1">> ELSE IF k = 2 THEN <<"e","1",";"," ","e","2">> ELSE <<"e","1",";"," ","e","2",";"," ","e","3">>

\* C13: check_schema returns at most one SCHEMA_INVALID record; when the
\* validator yields k >= 1 errors the record's text is the messages of the
\* first min(k, 3) errors, in order, joined by "; ", and none of the later
\* messages appears in a record.
C13_FirstThreeMessagesOnly ==
    pc = "return" =>
        /\ Len(SchemaInvalidRecords(ret)) <= 1
        /\ (SchemaUsable /\ arg.n_errors >= 1) =>
              /\ Len(ret) = 1
              /\ ret[1].kind = "SCHEMA_INVALID"
              /\ ret[1].value = JoinedFirst(arg.n_errors)
              /\ \A i \in 4..arg.n_errors :
                    \A j \in 1..Len(ret) :
                        ~Contains(ret[j].value, ErrorMessage(i))

\* C13 witness: the validator yielded more than three errors and the one
\* record holds e1; e2; e3.
C13_Witness ==
    /\ pc = "return"
    /\ arg.n_errors > 3
    /\ Len(ret) = 1
    /\ ret[1].value = <<"e","1",";"," ","e","2",";"," ","e","3">>

----------------------------------------------------------------------------
(* Properties of the scanner and the classifier *)

\* The fields the allowlist exempts for the fixture of the scanner's call:
\* the keys of the allowlist's entry for the stem Script.
ExemptFields(allowed) ==
    UNION {DictKeys(allowed.members[i].v) :
              i \in {j \in 1..Len(allowed.members) :
                        allowed.members[j].k = <<"S","c","r","i","p","t">>}}

\* The string leaves of a document, each with the field name that encloses
\* it: the key of the nearest enclosing object member, "" when there is none.
RECURSIVE StringOccurrences(_, _)
StringOccurrences(d, field) ==
    IF d.t = "str" THEN {[field |-> field, value |-> d.s]}
    ELSE IF d.t = "list"
    THEN UNION {StringOccurrences(d.items[i], field) : i \in 1..Len(d.items)}
    ELSE IF d.t = "dict"
    THEN UNION {StringOccurrences(d.members[i].v, d.members[i].k) :
                   i \in 1..Len(d.members)}
    ELSE {}

\* The four rules of the classifier, in their order.
Rules(v) ==
    <<match_prefix(RE_DATETIME, v) /\ v # EPOCH_SENTINEL,
      RE_UUID_match(v),
      match_prefix(RE_FILE_URI, v) /\ ~RE_FILE_URI_ALLOWED_match(v),
      RE_ABS_PATH_match(v)>>

RuleKinds == <<"datetime", "UUID", "file URI", "absolute path">>

MatchingRules(v) == {i \in DOMAIN RuleKinds : Rules(v)[i]}

\* What the call under test appended to the list it was given.
Appended == SubSeq(ret, Len(arg.errors) + 1, Len(ret))

\* C7: check_determinism never produces a record naming a field that is a
\* key of the allowlist's entry for the fixture's stem, whatever the depth
\* of the string and of the arrays that hold it.
C7_ExemptFieldNeverFlagged ==
    pc = "return" =>
        \A i \in 1..Len(ret) : ret[i].field \notin ExemptFields(arg.allowlist)

\* C7 witness: a UUID in an array in an array under the exempt key id was
\* scanned and left no record.
C7_Witness ==
    /\ pc = "return"
    /\ arg.data
         = JDict(<<Item(<<"i","d">>, JList(<<JList(<<JStr(UUID_VALUE)>>)>>))>>)
    /\ <<"i","d">> \in ExemptFields(arg.allowlist)
    /\ ret = <<>>

\* YYYY-MM-DDTHH:MM:SS at the start of the value.
HasDatetimeShape(v) ==
    /\ Len(v) >= 19
    /\ \A i \in 1..19 :
          IF i \in {5, 8} THEN v[i] = "-"
          ELSE IF i = 11 THEN v[i] = "T"
          ELSE IF i \in {14, 17} THEN v[i] = ":"
          ELSE v[i] \in Digit

\* C8: the exact string 1970-01-01T00:00:00Z yields no record at all, and
\* every other string that starts with the shape YYYY-MM-DDTHH:MM:SS yields
\* exactly one record, a "contains datetime" one.
C8_EpochSentinelOnly ==
    pc = "return" =>
        /\ arg.value = EPOCH_SENTINEL => Appended = <<>>
        /\ (arg.value # EPOCH_SENTINEL /\ HasDatetimeShape(arg.value)) =>
              /\ Len(Appended) = 1
              /\ Appended[1].detail = "datetime"
              /\ Appended[1].value = arg.value

\* C8 witness: the sentinel with one extra character was classified as a
\* datetime.
C8_Witness ==
    /\ pc = "return"
    /\ StartsWith(arg.value, EPOCH_SENTINEL)
    /\ Len(arg.value) = Len(EPOCH_SENTINEL) + 1
    /\ Len(Appended) = 1
    /\ Appended[1].detail = "datetime"

\* C9: classifying one value keeps the records already in the list and
\* appends at most one: none when the value matches no rule, else one whose
\* kind is that of the first rule, in the order datetime, UUID, file URI,
\* absolute path, that the value matches.
C9_FirstMatchingRuleWins ==
    pc = "return" =>
        LET m == MatchingRules(arg.value)
            first == CHOOSE i \in m : \A j \in m : i <= j
        IN  /\ SubSeq(ret, 1, Len(arg.errors)) = arg.errors
            /\ IF m = {} THEN Appended = <<>>
               ELSE /\ Len(Appended) = 1
                    /\ Appended[1].kind = "NON_DETERMINISTIC"
                    /\ Appended[1].detail = RuleKinds[first]
                    /\ Appended[1].value = arg.value
                    /\ Appended[1].field = FIELD

\* C9 witness: a file URI was appended, as one record, to a list that held
\* an earlier record.
C9_Witness ==
    /\ pc = "return"
    /\ arg.errors # <<>>
    /\ match_prefix(RE_FILE_URI, arg.value)
    /\ Len(ret) = Len(arg.errors) + 1
    /\ ret[Len(ret)].detail = "file URI"

\* C10: every string leaf of the document that its enclosing field name
\* does not exempt and that matches one of the four rules has a record
\* naming its field and its value.
C10_EveryStringLeafClassified ==
    pc = "return" =>
        \A occ \in StringOccurrences(arg.data, <<>>) :
            (occ.field \notin ExemptFields(arg.allowlist)
             /\ MatchingRules(occ.value) # {})
            => \E i \in 1..Len(ret) :
                   ret[i].field = occ.field /\ ret[i].value = occ.value

----------------------------------------------------------------------------
(* Properties of the canonical-form checker *)

RECURSIVE KeysAscending(_)
KeysAscending(keys) ==
    IF keys = {} THEN <<>>
    ELSE LET least == CHOOSE k \in keys :
                          \A j \in keys : j = k \/ StrLess(k, j)
         IN  <<least>> \o KeysAscending(keys \ {least})

\* The canonical text of a parsed document, from the definition of the
\* canonical form: object keys in ascending lexicographic order, "," and
\* ":" as the only separators, no other whitespace.
RECURSIVE CanonicalText(_)
RECURSIVE CanonicalJoin(_, _)
CanonicalJoin(texts, i) ==
    IF i > Len(texts) THEN <<>>
    ELSE (IF i > 1 THEN <<",">> ELSE <<>>) \o texts[i]
         \o CanonicalJoin(texts, i + 1)

CanonicalText(d) ==
    IF d.t = "list"
    THEN <<"[">>
         \o CanonicalJoin([i \in 1..Len(d.items) |-> CanonicalText(d.items[i])],
                          1)
         \o <<"]">>
    ELSE IF d.t = "dict"
    THEN LET keys == KeysAscending(DictKeys(d))
         IN  <<"{">>
             \o CanonicalJoin(
                    [i \in 1..Len(keys) |->
                        <<"\"">> \o encode_basestring(keys[i], 1, TRUE) \o <<"\"",":">>
                        \o CanonicalText(DictGet(d, keys[i], JNull))],
                    1)
             \o <<"}">>
    ELSE json_dumps(d, FALSE, TRUE, <<>>, <<>>)

\* The canonical form: the canonical text and exactly one newline.
CanonicalForm(d) == encode_utf8(CanonicalText(d) \o <<"\n">>, 1)

\* C5: check_canonical returns no record iff the bytes parse as JSON and
\* are equal to the canonical form of the parsed document; bytes that parse
\* and differ from it get exactly one NOT_CANONICAL record.
C5_CanonicalIffEqualsReserialization ==
    (pc = "return" /\ arg.op = "check") =>
        LET loaded == json_loads(arg.raw_bytes)
            canonical == /\ loaded.raised = "no"
                         /\ arg.raw_bytes = CanonicalForm(loaded.data)
        IN  /\ (ret.raised = "no" /\ ret.errors = <<>>) <=> canonical
            /\ (loaded.raised = "no" /\ ~canonical) =>
                  /\ ret.raised = "no"
                  /\ ret.errors = <<NotCanonical(REL_PATH, "mismatch")>>

\* C5 witness: the file {"b":1,"a":2}\n, whose keys are not sorted, was
\* checked and got one NOT_CANONICAL record.
C5_Witness ==
    /\ pc = "return"
    /\ arg.op = "check"
    /\ arg.raw_bytes = <<"{","\"","b","\"",":","1",",","\"","a","\"",":","2","}","\n">>
    /\ ret.errors = <<NotCanonical(REL_PATH, "mismatch")>>

\* C6: for every document d, the bytes canonical_bytes(d) parse, their
\* re-serialization canonical_bytes(parse(canonical_bytes(d))) is the same
\* bytes, and check_canonical returns no record for them.
C6_CanonicalisationIdempotent ==
    (pc = "return" /\ arg.op = "canonicalise") =>
        /\ ret.loaded = "no"
        /\ ret.again = ret.bytes
        /\ ret.checked = [raised |-> "no", errors |-> <<>>]

\* C6 witness: a dict with unsorted keys and a string that needs escapes
\* was canonicalised, and canonicalising the result again changed nothing.
C6_Witness ==
    /\ pc = "return"
    /\ arg.op = "canonicalise"
    /\ arg.data = JDict(<<Item(<<"b">>, JStr(<<"\"","\\","\n">>)), Item(<<"a">>, JInt(2))>>)
    /\ ret.bytes = <<"{","\"","a","\"",":","2",",","\"","b","\"",":","\"","\\","\"","\\","\\","\\","n","\"","}","\n">>
    /\ ret.again = ret.bytes


\* C24: a value that is a file:// URI, other than file:///placeholder
\* itself and the strings that start with file:///placeholder/, gets one
\* NON_DETERMINISTIC record appended by the classifier.
C24_OnlyPlaceholderUriAccepted ==
    (/\ pc = "return"
     /\ StartsWith(arg.value, <<"f","i","l","e",":","/","/">>)
     /\ arg.value # PLACEHOLDER_URI
     /\ ~StartsWith(arg.value, PLACEHOLDER_URI \o <<"/">>)) =>
        /\ Len(ret) = Len(arg.errors) + 1
        /\ ret[Len(ret)].kind = "NON_DETERMINISTIC"
----------------------------------------------------------------------------
(* Claims about the compile command *)

ParseFails == parse_story_file(arg.story).raised # "no"

\* C21: when the compile command has ended, a non-zero exit status goes
\* with a file at --out that is as it was before the run (absent, or with
\* its old content), every failure the run met (a story that does not
\* parse, a contract violation, world-engine missing or not runnable, a
\* canon violation) gave a non-zero status, and status 0 goes with a file
\* present at --out.
C21_OutWrittenOnlyOnSuccess ==
    pc = "exited" =>
        /\ exit_status # 0 => fs.out = arg.out_before
        /\ exit_status = 0 => fs.out.exists
        /\ ParseFails => exit_status # 0
        /\ ret.raised = "ValidationError" => exit_status # 0
        /\ ret.world_engine \in {"not_found", "invoke_fails",
                                 "returncode_nonzero"} => exit_status # 0

\* C21 witness: world-engine rejected the prompt of a run started with an
\* older file at --out, which is still there unchanged after exit 1.
C21_Witness ==
    /\ pc = "exited"
    /\ ret.world_engine = "returncode_nonzero"
    /\ exit_status = 1
    /\ arg.out_before = File(OLD_OUT)
    /\ fs.out = File(OLD_OUT)

CanonEnabledNoWorldEngine ==
    ~arg.skip_canon /\ arg.world_engine \in {"not_found", "invoke_fails"}

\* What the claim gives exit status 1 to: the story fails to parse, the
\* compiled prompt violates the contract, or canon validation is enabled
\* and world-engine returns a non-zero code.
ClaimedStatusOne ==
    \/ ParseFails
    \/ ret.raised = "ValidationError"
    \/ ~arg.skip_canon /\ arg.world_engine = "returncode_nonzero"

\* C22 as stated: the exit status is 2 exactly when canon validation is
\* enabled and world-engine cannot be found or invoked, 1 when the story
\* fails to parse, the prompt violates the contract or world-engine
\* rejects the prompt, and 0 otherwise; with --skip-canon world-engine is
\* never called and the status is never 2.
C22_ExitStatusByCause ==
    pc = "exited" =>
        /\ exit_status = 2 <=> CanonEnabledNoWorldEngine
        /\ ~CanonEnabledNoWorldEngine =>
              (exit_status = 1 <=> ClaimedStatusOne)
        /\ exit_status \in {0, 1, 2}
        /\ arg.skip_canon =>
              ret.world_engine = "not_called" /\ exit_status # 2

\* C22: the exit status is 2 exactly when the run reached canon validation
\* (the story parsed, the prompt met the contract, the temporary file was
\* written), canon validation is enabled and world-engine cannot be found
\* or invoked; it is 1 when the story fails to parse, the prompt violates
\* the contract, world-engine rejects the prompt (non-zero return code), or
\* an error is raised while the temporary file is created or written, the
\* parent of --out is created or the temporary file is moved to --out; it
\* is 0 otherwise; with --skip-canon world-engine is never called and the
\* status is never 2.
C22_ExitStatusByCauseInOrder ==
    pc = "exited" =>
        LET two == /\ CanonEnabledNoWorldEngine
                   /\ ~ParseFails
                   /\ ret.raised # "ValidationError"
                   /\ ret.failed = ""
            one == ~two /\ (ClaimedStatusOne \/ ret.failed # "")
        IN  /\ exit_status = 2 <=> two
            /\ exit_status = 1 <=> one
            /\ exit_status = 0 <=> ~two /\ ~one
            /\ arg.skip_canon =>
                  ret.world_engine = "not_called" /\ exit_status # 2

\* C22 witness: a run that got to the move with world-engine's approval,
\* where the move raised OSError and the status is 1.
C22_Witness ==
    /\ pc = "exited"
    /\ ~arg.skip_canon
    /\ ret.world_engine = "returncode_zero"
    /\ ret.failed = "replace"
    /\ exit_status = 1

\* C25: once the temporary file was created, it is gone from its path when
\* the command has ended, however it ended, and after exit status 0 the
\* file at --out holds what write_json wrote for the compiled prompt.
C25_TempFileRemoved ==
    (pc = "exited" /\ ret.tmp_created) =>
        /\ ~fs.tmp.exists
        /\ exit_status = 0 => fs.out = File(write_json(ret.prompt_dict))

\* C25 witness: world-engine was not found, so the run ended with status 2
\* while the written temporary file was still at its path before the
\* finally clause.
C25_Witness ==
    /\ pc = "exited"
    /\ ret.tmp_created
    /\ ret.world_engine = "not_found"
    /\ exit_status = 2
    /\ ~fs.tmp.exists

----------------------------------------------------------------------------
(* Claims about the generated Script *)

====
